---- MODULE Spec2Model ----
(***************************************************************************)
(* Model of vite-plugin-astro-prerender.                                   *)
(*                                                                         *)
(*  - the client runtime loader, LazyHTMLLoader (src/utils/LazyLoader.ts)  *)
(*  - the build-time pipeline orchestrator (src/index.ts) with its         *)
(*    content cache, renderers and stylesheet generator                    *)
(*                                                                         *)
(* Every await of the source is a step boundary: the code between two      *)
(* awaits is one atomic action.                                            *)
(***************************************************************************)
EXTENDS Integers, Sequences, FiniteSets, TLC

(***************************************************************************)
(* Bounds                                                                  *)
(***************************************************************************)
MaxRetriesBound == 2    \* config.maxRetries ranges over 0..MaxRetriesBound
MaxAttempts == 3         \* config.maxRetries where the waits are examined
MaxStarts == 2          \* calls of load / clearCache / clearCSSCache / reset in a behaviour
MaxEntries == 2         \* entries handed to one viewport callback

Calls == {1, 2}         \* load() activations that may be in flight together
Names == {"A", "B"}     \* component names passed to load()

(***************************************************************************)
(* Program constants                                                       *)
(***************************************************************************)
DefaultRetryDelay == 1000

NoEntry == "<none>"     \* Map.has(name) = false / undefined
NoCssFile == "<nocss>"  \* manifest.components[name] is undefined

\* fetch() outcomes: a 2xx response, a 500 response, a 404 response, or a
\* rejected promise (network error)
Outcomes == {"ok", "e500", "e404", "neterr"}

\* the manifest served at manifestUrl: A has a stylesheet, B has none
ManifestComponents == [n \in Names |-> IF n = "A" THEN "a.css" ELSE NoCssFile]

LegacyHref == "lazy-components.css"
BaseHref == "base.css"
Hrefs == {LegacyHref, BaseHref, "a.css"}

\* the fragment the server holds at {baseUrl}/{name}.html
Body(n) == IF n = "A" THEN "<a/>" ELSE "<bb/>"

\* new Blob([html]).size
BlobSize(html) == IF html = "<a/>" THEN 4 ELSE 5

VARIABLES
  config,           \* LazyHTMLLoader.config (cssModules is rewritten by loadManifest)
  poAvailable,      \* the PerformanceObserver global exists in this browser
  htmlCache,        \* LazyHTMLLoader.htmlCache
  cssCache,         \* LazyHTMLLoader.cssCache
  manifest,         \* LazyHTMLLoader.manifest: "null" or "loaded"
  manifestLoaded,
  baseCssLoaded,
  legacyCssLoaded,
  stats,            \* LazyHTMLLoader.stats, and detailedStats as its field `detailed`
  head,             \* document.head: number of stylesheet links appended per href
  calls,            \* the load() activations
  started,          \* calls of the loader's methods started so far
  manifestFailed    \* history: a manifest fetch has failed in this session

VARIABLES
  dom,              \* the page: selector -> innerHTML of the element it matches
  observers,        \* LazyHTMLLoader.observers: component name -> observer
  io,               \* the IntersectionObservers created by observeAndLoad
  callback,         \* the viewport callback being run, with its entries left
  wrap              \* the inject() activation around each load() activation

VARIABLES
  options,          \* plugin options: renderer, generateTailwindCSS; and config.command
  files,            \* the component sources on disk: path -> content
  cache,            \* CacheManager: the in-memory entries, path -> hash
  loaded,           \* CacheManager.loaded
  persisted,        \* the cache store on disk
  viteServer,       \* ContainerRenderer.viteServer is set
  classes,          \* CSSGenerator.classes
  componentStyles,  \* CSSGenerator.componentStyles
  cssOut,           \* lazy-components.css on disk
  fragments,        \* the fragment files on disk: output name -> content
  pass,             \* the processAll activation
  task,             \* the processComponent activation
  prev,             \* history: what the previous full pass did with each path
  cur,              \* history: what the current full pass did with each path
  passes,           \* full passes started so far
  edits             \* source edits so far

VARIABLES
  compiler,         \* history: the inputs handed to the utility CSS compiler
  genOps,           \* history: the CSSGenerator methods a direct caller called
  cacheLog,         \* the CacheManager methods a direct caller has called
  watcher,          \* the file watcher: registered or not, its pending events
  unlinked,         \* history: paths whose removal event has been handled
  restarts,         \* restarts of the plugin process so far
  pure              \* a pure function under test: its input and its results

auxVars == <<genOps, cacheLog, watcher, unlinked, restarts, pure>>


buildVars == <<options, files, cache, loaded, persisted, viteServer, classes,
               componentStyles, cssOut, fragments, pass, task, prev, cur,
               passes, edits, compiler, auxVars>>

pageVars == <<dom, observers, io, callback, wrap>>

loaderVars == <<config, poAvailable, htmlCache, cssCache, manifest,
                manifestLoaded, baseCssLoaded, legacyCssLoaded, stats, head,
                calls, started, manifestFailed, pageVars>>

\* what the plugin's objects, called directly, leave alone
sideVars == <<loaderVars, pure>>

\* what applying a pure function leaves alone
stateVars == <<loaderVars, options, files, cache, loaded, persisted, viteServer,
               classes, componentStyles, cssOut, fragments, pass, task, prev,
               cur, passes, edits, compiler, genOps, cacheLog, watcher,
               unlinked, restarts>>

vars == <<loaderVars, buildVars>>

(***************************************************************************)
(* One load() activation.  The fields after `value` are history of the     *)
(* activation: what it received and what it did.                           *)
(***************************************************************************)
IdleCall ==
  [pc |-> "idle", name |-> "A", attempt |-> 0,
   result |-> "none", value |-> NoEntry,
   hadEntry |-> FALSE,        \* cacheHTML was on and the cache held name at the call
   fails |-> 0,               \* fragment fetches that failed other than by a 404
   n404 |-> 0,                \* fragment fetches answered 404
   fetches |-> 0,             \* fetch() calls issued for the fragment URL
   delays |-> <<>>,           \* backoff waits before fragment retries
   stored |-> NoEntry,        \* what this call put in htmlCache
   legacyEnsured |-> FALSE,   \* loadLegacyCSS ran for this call
   sawManifestFail |-> FALSE, \* this call's manifest fetch failed
   po |-> "none",             \* what became of this call's PerformanceObserver
   dHits |-> 0, dMisses |-> 0, dLoads |-> 0, dErrors |-> 0, onErr |-> 0]

\* detailedStats is a Map: its entries in insertion order, one per key
ZeroStats == [totalLoads |-> 0, cacheHits |-> 0, cacheMisses |-> 0,
              errors |-> 0, totalBytes |-> 0, detailed |-> <<>>]

\* this.detailedStats.set(componentName, loadInfo): the entry of a key the
\* Map already holds is replaced where it stands, a new key is appended
SetDetailed(d, n, fromCache, timestamp) ==
  LET e == [name |-> n, fromCache |-> fromCache, timestamp |-> timestamp]
  IN IF \E i \in DOMAIN d : d[i].name = n
       THEN [i \in DOMAIN d |-> IF d[i].name = n THEN e ELSE d[i]]
       ELSE Append(d, e)

\* the position of the entry that sort((a, b) => b.timestamp - a.timestamp)
\* puts first: the latest timestamp, the earliest position among equals
Newest(d) ==
  CHOOSE i \in DOMAIN d :
    \A j \in DOMAIN d : \/ d[j].timestamp < d[i].timestamp
                         \/ (d[j].timestamp = d[i].timestamp /\ i <= j)

\* a sequence without its element at position i
Without(d, i) == [j \in 1..(Len(d) - 1) |-> IF j < i THEN d[j] ELSE d[j + 1]]

RECURSIVE SortNewestFirst(_)
SortNewestFirst(d) ==
  IF d = <<>> THEN <<>>
  ELSE <<d[Newest(d)]>> \o SortNewestFirst(Without(d, Newest(d)))

\* getDetailedHistory(): the entries of the Map, sorted by timestamp,
\* descending
GetDetailedHistory == SortNewestFirst(stats.detailed)

(***************************************************************************)
(* The page: the elements inject() writes to and the viewport observers    *)
(***************************************************************************)
Selectors == {"#slot", "#none"}
NoElement == "<no element>"     \* document.querySelector(selector) is null

ObsIds == {1, 2}                \* the IntersectionObserver objects
NoObserver == 0

\* one IntersectionObserver of observeAndLoad: the target it observes and,
\* as history, the number of inject() calls its callback has made
IdleObserver == [state |-> "unused", name |-> "A", selector |-> "#slot",
                 injects |-> 0]

\* a callback in progress: the observer and the intersecting entries that
\* entries.forEach has still to come to (the others do nothing)
NoCallback == [obs |-> NoObserver, left |-> 0]

\* the entries of one callback: isIntersecting of each
EntryLists == UNION {[1..k -> BOOLEAN] : k \in 1..MaxEntries}

\* the inject() activation that awaits a load() activation, if any
NoWrap == [op |-> "load", selector |-> "", obs |-> NoObserver,
           outcome |-> "none",   \* "pending", "resolved", "rejected", "caught"
           message |-> "",       \* what the rejection names
           onErr |-> 0,          \* onError calls made by inject itself
           wrote |-> FALSE,      \* target.innerHTML was assigned
           linked |-> FALSE]     \* its load() appended a stylesheet link at once

\* the page before the loader is used
PageInit ==
  /\ dom = [s \in Selectors |-> IF s = "#slot" THEN "" ELSE NoElement]
  /\ observers = [n \in Names |-> NoObserver]
  /\ io = [o \in ObsIds |-> IdleObserver]
  /\ callback = NoCallback
  /\ wrap = [c \in Calls |-> NoWrap]

LoaderInit ==
  /\ config \in [cssModules : BOOLEAN, cacheHTML : BOOLEAN,
                 enableRetry : BOOLEAN, maxRetries : 0..MaxRetriesBound,
                 retryDelay : {DefaultRetryDelay}]
  /\ config.enableRetry \/ config.maxRetries = MaxRetriesBound  \* read only with retry on
  /\ poAvailable \in BOOLEAN
  /\ htmlCache = [n \in Names |-> NoEntry]
  /\ cssCache = {}
  /\ manifest = "null"
  /\ manifestLoaded = FALSE
  /\ baseCssLoaded = FALSE
  /\ legacyCssLoaded = FALSE
  /\ stats = ZeroStats
  /\ head = [h \in Hrefs |-> 0]
  /\ calls = [c \in Calls |-> IdleCall]
  /\ started = 0
  /\ manifestFailed = FALSE
  /\ PageInit

(***************************************************************************)
(* fetchWithRetry                                                          *)
(***************************************************************************)
\* a retry loop whose attempts are counted across all the calls in flight
RetryDecisionShared(attempt, retries, o) ==
  IF o = "ok" THEN "return"
  ELSE IF calls[1].fetches + calls[2].fetches >= retries THEN "throw"
  ELSE "wait"

\* What one iteration of the loop does with the outcome of `await fetch(url)`:
\* "return" the response, "throw" out of fetchWithRetry, or "wait" and go
\* round the loop again.  The 404 throw sits inside the try block, so the
\* catch clause receives it and only rethrows on the last attempt.
RetryDecision(attempt, retries, o) ==
  IF o = "ok" THEN "return"
  ELSE IF attempt = retries THEN "throw"   \* thrown (or caught) and rethrown
  ELSE "wait"                              \* e500, e404 and neterr alike

\* a wait that is the same before every retry
BackoffDelayFlat(attempt) == config.retryDelay

\* setTimeout(resolve, this.config.retryDelay * attempt)
BackoffDelay(attempt) == config.retryDelay * attempt

\* the retries parameter: this.config.maxRetries by default; a plain fetch()
\* (enableRetry off) behaves as a single attempt whose response is returned
\* whatever its status
Retries == config.maxRetries

\* Date.now() when a load completes: later loads have later timestamps; the
\* count of the loads completed so far serves as the clock
Now == stats.totalLoads + 1

\* load()'s catch clause: stats.errors++, onError, rethrow
Fail(cl) == [cl EXCEPT !.pc = "done", !.result = "rejected",
                       !.dErrors = @ + 1, !.onErr = @ + 1]

StatsError == [stats EXCEPT !.errors = @ + 1]


(***************************************************************************)
(* load(): the cache check and the sequence up to the first await          *)
(***************************************************************************)
\* a cache check that never finds the entry
IsCacheHitNever(n) == FALSE

\* this.config.cacheHTML && this.htmlCache.has(componentName)
IsCacheHit(n) == config.cacheHTML /\ htmlCache[n] # NoEntry

SetCall(c, cl) == calls' = [calls EXCEPT ![c] = cl]

AppendLink(h) == head' = [head EXCEPT ![h] = @ + 1]

\* loadLegacyCSS up to its await: returns at once when legacyCssLoaded,
\* otherwise appends the link and waits for onload / onerror
LoadLegacyCSS(c, cl) ==
  IF legacyCssLoaded
    THEN /\ SetCall(c, [cl EXCEPT !.pc = "fetchHtml", !.legacyEnsured = TRUE])
         /\ UNCHANGED head
    ELSE /\ SetCall(c, [cl EXCEPT !.pc = "legacyWait", !.legacyEnsured = TRUE])
         /\ AppendLink(LegacyHref)

\* loadManifest's catch clause: fall back to legacy mode
ManifestFailure(c, cl) ==
  /\ config' = [config EXCEPT !.cssModules = FALSE]
  /\ manifestLoaded' = TRUE
  /\ manifestFailed' = TRUE
  /\ SetCall(c, [cl EXCEPT !.pc = "baseAfterManifest", !.sawManifestFail = TRUE])
  /\ UNCHANGED manifest

\* loadBaseCSS up to its first await, loadManifest included
LoadBaseCSS(c, cl) ==
  IF baseCssLoaded
    THEN /\ SetCall(c, [cl EXCEPT !.pc = "compCSS"])
         /\ UNCHANGED <<config, manifest, manifestLoaded, manifestFailed>>
  ELSE IF manifestLoaded
    THEN /\ SetCall(c, [cl EXCEPT !.pc = "baseAfterManifest"])
         /\ UNCHANGED <<config, manifest, manifestLoaded, manifestFailed>>
  ELSE IF config.enableRetry /\ Retries = 0
    THEN ManifestFailure(c, cl)     \* the retry loop body never runs
  ELSE /\ SetCall(c, [cl EXCEPT !.pc = "manifestWait", !.attempt = 1])
       /\ UNCHANGED <<config, manifest, manifestLoaded, manifestFailed>>

\* the activation record is free: never used, or its promise has settled and
\* no inject() is still to continue after it
Settled(c) == calls[c].pc \in {"idle", "done"} /\ wrap[c].outcome # "pending"

\* load(componentName) from the call to its first await (or to its return on
\* a cache hit), running as activation c
StartLoad(c, n) ==
  /\ Settled(c)
  /\ \A d \in Calls : d < c => ~Settled(d)   \* activations are interchangeable
  /\ LET had == config.cacheHTML /\ htmlCache[n] # NoEntry
         cl == [IdleCall EXCEPT !.name = n, !.hadEntry = had]
     IN IF IsCacheHit(n)
          THEN /\ stats' = [stats EXCEPT !.cacheHits = @ + 1, !.totalLoads = @ + 1,
                                          !.detailed = SetDetailed(@, n, TRUE, Now)]
               /\ SetCall(c, [cl EXCEPT !.pc = "done", !.result = "resolved",
                                        !.value = htmlCache[n],
                                        !.dHits = 1, !.dLoads = 1])
               /\ UNCHANGED <<config, manifest, manifestLoaded, manifestFailed, head>>
          ELSE /\ stats' = [stats EXCEPT !.cacheMisses = @ + 1]
               /\ IF config.cssModules
                    THEN LoadBaseCSS(c, [cl EXCEPT !.dMisses = 1]) /\ UNCHANGED head
                    ELSE /\ LoadLegacyCSS(c, [cl EXCEPT !.dMisses = 1])
                         /\ UNCHANGED <<config, manifest, manifestLoaded, manifestFailed>>
  /\ UNCHANGED <<poAvailable, htmlCache, cssCache, baseCssLoaded,
                 legacyCssLoaded>>

\* load() called by the page itself: preload(name) is this call
Load(c, n) ==
  /\ started < MaxStarts
  /\ started' = started + 1
  /\ StartLoad(c, n)
  /\ wrap' = [wrap EXCEPT ![c] = NoWrap]
  /\ UNCHANGED <<buildVars, dom, observers, io, callback>>

(***************************************************************************)
(* The browser event loop: a task (a fetch settling, a link event, a       *)
(* timer) starts only when the microtask queue is empty, that is when no   *)
(* activation stands at the continuation of an already settled await.      *)
(***************************************************************************)
MicrotaskPcs == {"baseAfterManifest", "compCSS", "fetchHtml"}

MicrotasksDrained == \A c \in Calls : calls[c].pc \notin MicrotaskPcs

(***************************************************************************)
(* loadManifest                                                            *)
(***************************************************************************)
ManifestResponse(c, o) ==
  /\ UNCHANGED <<buildVars, pageVars>>
  /\ MicrotasksDrained
  /\ calls[c].pc = "manifestWait"
  /\ LET cl == calls[c]
         d == IF config.enableRetry
                THEN RetryDecision(cl.attempt, Retries, o)
                ELSE IF o = "ok" THEN "return" ELSE "throw"
     IN CASE d = "return" ->
               /\ manifest' = "loaded"
               /\ manifestLoaded' = TRUE
               /\ SetCall(c, [cl EXCEPT !.pc = "baseAfterManifest"])
               /\ UNCHANGED <<config, manifestFailed>>
          [] d = "throw" -> ManifestFailure(c, cl)
          [] d = "wait" ->
               /\ SetCall(c, [cl EXCEPT !.pc = "manifestBackoff"])
               /\ UNCHANGED <<config, manifest, manifestLoaded, manifestFailed>>
  /\ UNCHANGED <<poAvailable, htmlCache, cssCache, baseCssLoaded,
                 legacyCssLoaded, stats, head, started>>

ManifestRetry(c) ==
  /\ UNCHANGED <<buildVars, pageVars>>
  /\ MicrotasksDrained
  /\ calls[c].pc = "manifestBackoff"
  /\ SetCall(c, [calls[c] EXCEPT !.pc = "manifestWait", !.attempt = @ + 1])
  /\ UNCHANGED <<config, poAvailable, htmlCache, cssCache, manifest,
                 manifestLoaded, baseCssLoaded, legacyCssLoaded, stats, head,
                 started, manifestFailed>>

(***************************************************************************)
(* loadBaseCSS after `await this.loadManifest()`                           *)
(***************************************************************************)
LoadBaseCSSLink(c) ==
  /\ UNCHANGED <<buildVars, pageVars>>
  /\ calls[c].pc = "baseAfterManifest"
  /\ IF manifest = "null"
       THEN /\ SetCall(c, [calls[c] EXCEPT !.pc = "compCSS"])
            /\ UNCHANGED head
       ELSE /\ SetCall(c, [calls[c] EXCEPT !.pc = "baseWait"])
            /\ AppendLink(BaseHref)
  /\ UNCHANGED <<config, poAvailable, htmlCache, cssCache, manifest,
                 manifestLoaded, baseCssLoaded, legacyCssLoaded, stats,
                 started, manifestFailed>>

(***************************************************************************)
(* loadComponentCSS up to its await                                        *)
(***************************************************************************)
LoadComponentCSS(c) ==
  /\ UNCHANGED <<buildVars, pageVars>>
  /\ calls[c].pc = "compCSS"
  /\ LET cl == calls[c]
         cssFile == ManifestComponents[cl.name]
     IN IF \/ ~config.cssModules
           \/ manifest = "null"
           \/ cssFile = NoCssFile
           \/ cssFile \in cssCache
          THEN /\ SetCall(c, [cl EXCEPT !.pc = "fetchHtml"])
               /\ UNCHANGED head
          ELSE /\ SetCall(c, [cl EXCEPT !.pc = "compWait"])
               /\ AppendLink(cssFile)
  /\ UNCHANGED <<config, poAvailable, htmlCache, cssCache, manifest,
                 manifestLoaded, baseCssLoaded, legacyCssLoaded, stats,
                 started, manifestFailed>>

(***************************************************************************)
(* link.onload / link.onerror of the stylesheet a call waits for; a        *)
(* rejection is swallowed by load()'s .catch                               *)
(***************************************************************************)
LinkOnload(c) ==
  /\ UNCHANGED <<buildVars, pageVars>>
  /\ MicrotasksDrained
  /\ calls[c].pc \in {"baseWait", "compWait", "legacyWait"}
  /\ LET cl == calls[c]
     IN CASE cl.pc = "baseWait" ->
               /\ baseCssLoaded' = TRUE
               /\ SetCall(c, [cl EXCEPT !.pc = "compCSS"])
               /\ UNCHANGED <<cssCache, legacyCssLoaded>>
          [] cl.pc = "compWait" ->
               /\ cssCache' = cssCache \cup {ManifestComponents[cl.name]}
               /\ SetCall(c, [cl EXCEPT !.pc = "fetchHtml"])
               /\ UNCHANGED <<baseCssLoaded, legacyCssLoaded>>
          [] cl.pc = "legacyWait" ->
               /\ legacyCssLoaded' = TRUE
               /\ SetCall(c, [cl EXCEPT !.pc = "fetchHtml"])
               /\ UNCHANGED <<cssCache, baseCssLoaded>>
  /\ UNCHANGED <<config, poAvailable, htmlCache, manifest, manifestLoaded,
                 stats, head, started, manifestFailed>>

LinkOnerror(c) ==
  /\ UNCHANGED <<buildVars, pageVars>>
  /\ MicrotasksDrained
  /\ calls[c].pc \in {"baseWait", "compWait", "legacyWait"}
  /\ SetCall(c, [calls[c] EXCEPT
                   !.pc = IF @ = "baseWait" THEN "compCSS" ELSE "fetchHtml"])
  /\ UNCHANGED <<config, poAvailable, htmlCache, cssCache, manifest,
                 manifestLoaded, baseCssLoaded, legacyCssLoaded, stats, head,
                 started, manifestFailed>>


(***************************************************************************)
(* load(): the fragment fetch                                              *)
(***************************************************************************)
\* `await (enableRetry ? this.fetchWithRetry(url) : fetch(url))`: the first
\* fetch() is issued, unless the retry loop has nothing to run
FetchHTML(c) ==
  /\ UNCHANGED <<buildVars, pageVars>>
  /\ calls[c].pc = "fetchHtml"
  /\ IF config.enableRetry /\ Retries = 0
       THEN /\ SetCall(c, Fail(calls[c]))
            /\ stats' = StatsError
       ELSE /\ SetCall(c, [calls[c] EXCEPT !.pc = "fetchWait", !.attempt = 1,
                                           !.fetches = @ + 1])
            /\ UNCHANGED stats
  /\ UNCHANGED <<config, poAvailable, htmlCache, cssCache, manifest,
                 manifestLoaded, baseCssLoaded, legacyCssLoaded, head,
                 started, manifestFailed>>

\* what response.text() gives: the fragment for a 2xx response, the server's
\* error page otherwise
ErrorPage == "<err/>"
ResponseBody(n, o) == IF o = "ok" THEN Body(n) ELSE ErrorPage

\* a plain fetch whose response is used whatever its status
PlainFetchUnchecked(o) == IF o = "neterr" THEN "throw" ELSE "return"

\* `await fetch(url)` followed by `if (!response.ok) throw ...`: a rejection
\* and a response that is not 2xx both reach load()'s catch clause
PlainFetch(o) == IF o = "ok" THEN "return" ELSE "throw"

\* the response (or rejection) of the fetch in flight
FetchResponse(c, o) ==
  /\ UNCHANGED <<buildVars, pageVars>>
  /\ MicrotasksDrained
  /\ calls[c].pc = "fetchWait"
  /\ LET cl == [calls[c] EXCEPT
                 !.fails = IF o \in {"e500", "neterr"} THEN @ + 1 ELSE @,
                 !.n404 = IF o = "e404" THEN @ + 1 ELSE @]
         d == IF config.enableRetry
                THEN RetryDecision(cl.attempt, Retries, o)
                ELSE PlainFetch(o)
     IN CASE d = "return" ->
               /\ SetCall(c, [cl EXCEPT !.pc = "gotResponse",
                                        !.value = ResponseBody(cl.name, o)])
               /\ UNCHANGED stats
          [] d = "throw" ->
               /\ SetCall(c, Fail(cl))
               /\ stats' = StatsError
          [] d = "wait" ->
               /\ SetCall(c, [cl EXCEPT !.pc = "backoff",
                                        !.delays = Append(@, BackoffDelay(cl.attempt))])
               /\ UNCHANGED stats
  /\ UNCHANGED <<config, poAvailable, htmlCache, cssCache, manifest,
                 manifestLoaded, baseCssLoaded, legacyCssLoaded, head,
                 started, manifestFailed>>

\* the backoff timer fires: next iteration of the loop, next fetch()
RetryTimer(c) ==
  /\ UNCHANGED <<buildVars, pageVars>>
  /\ MicrotasksDrained
  /\ calls[c].pc = "backoff"
  /\ SetCall(c, [calls[c] EXCEPT !.pc = "fetchWait", !.attempt = @ + 1,
                                 !.fetches = @ + 1])
  /\ UNCHANGED <<config, poAvailable, htmlCache, cssCache, manifest,
                 manifestLoaded, baseCssLoaded, legacyCssLoaded, stats, head,
                 started, manifestFailed>>

\* `new PerformanceObserver(...)` stands outside the inner try: when the
\* global is missing the ReferenceError reaches load()'s catch clause.
\* observe() throwing is caught by the inner try.
ObserveResources(cl, observeThrows) ==
  IF ~poAvailable THEN Fail([cl EXCEPT !.po = "unavailable"])
  ELSE [cl EXCEPT !.pc = "done", !.result = "resolved",
                  !.po = IF observeThrows THEN "failed" ELSE "observing"]

\* after `await response.text()`: cache, stats, resource observer, return
StoreAndReturn(c, observeThrows) ==
  /\ UNCHANGED <<buildVars, pageVars>>
  /\ MicrotasksDrained
  /\ calls[c].pc = "gotResponse"
  /\ LET cl == calls[c]
         html == cl.value
         cl2 == [cl EXCEPT !.dLoads = @ + 1,
                           !.stored = IF config.cacheHTML THEN html ELSE @]
         cl3 == ObserveResources(cl2, observeThrows)
     IN /\ htmlCache' = IF config.cacheHTML
                          THEN [htmlCache EXCEPT ![cl.name] = html]
                          ELSE htmlCache
        /\ SetCall(c, cl3)
        /\ stats' = [stats EXCEPT !.totalLoads = @ + 1,
                                  !.totalBytes = @ + BlobSize(html),
                                  !.errors = @ + cl3.dErrors,
                                  !.detailed = IF poAvailable
                                                 THEN SetDetailed(@, cl.name, FALSE, Now)
                                                 ELSE @]
  /\ UNCHANGED <<config, poAvailable, cssCache, manifest, manifestLoaded,
                 baseCssLoaded, legacyCssLoaded, head, started,
                 manifestFailed>>

(***************************************************************************)
(* clearCache, clearCSSCache, reset                                        *)
(***************************************************************************)
\* A clearing call that finds nothing to clear leaves the loader as it was:
\* it is no step of the model.
HtmlCacheEmpty == \A n \in Names : htmlCache[n] = NoEntry

CssStateClear ==
  /\ cssCache = {}
  /\ ~baseCssLoaded
  /\ ~legacyCssLoaded
  /\ ~manifestLoaded
  /\ manifest = "null"

ClearCache ==
  /\ UNCHANGED <<buildVars, pageVars>>
  /\ started < MaxStarts
  /\ ~HtmlCacheEmpty
  /\ started' = started + 1
  /\ htmlCache' = [n \in Names |-> NoEntry]
  /\ UNCHANGED <<config, poAvailable, cssCache, manifest, manifestLoaded,
                 baseCssLoaded, legacyCssLoaded, stats, head, calls,
                 manifestFailed>>

ClearCSSCache ==
  /\ UNCHANGED <<buildVars, pageVars>>
  /\ started < MaxStarts
  /\ ~CssStateClear
  /\ started' = started + 1
  /\ cssCache' = {}
  /\ baseCssLoaded' = FALSE
  /\ legacyCssLoaded' = FALSE
  /\ manifestLoaded' = FALSE
  /\ manifest' = "null"
  /\ UNCHANGED <<config, poAvailable, htmlCache, stats, head, calls,
                 manifestFailed>>

\* the observers map holds no observer
RegistryEmpty == \A n \in Names : observers[n] = NoObserver

\* observers.forEach((observer) => observer.disconnect())
DisconnectRegistered ==
  [o \in ObsIds |->
     IF \E n \in Names : observers[n] = o
       THEN [io[o] EXCEPT !.state = "disconnected"]
       ELSE io[o]]

\* disconnectAll()
DisconnectAll ==
  /\ started < MaxStarts
  /\ ~RegistryEmpty
  /\ started' = started + 1
  /\ io' = DisconnectRegistered
  /\ observers' = [n \in Names |-> NoObserver]
  /\ UNCHANGED <<config, poAvailable, htmlCache, cssCache, manifest,
                 manifestLoaded, baseCssLoaded, legacyCssLoaded, stats, head,
                 calls, manifestFailed>>
  /\ UNCHANGED <<dom, callback, wrap>>
  /\ UNCHANGED buildVars

\* a reset that forgets to empty the HTML cache
ResetKeepingHtml ==
  /\ UNCHANGED buildVars
  /\ started < MaxStarts
  /\ ~(HtmlCacheEmpty /\ CssStateClear /\ stats = ZeroStats /\ RegistryEmpty)
  /\ started' = started + 1
  /\ cssCache' = {}
  /\ baseCssLoaded' = FALSE
  /\ legacyCssLoaded' = FALSE
  /\ manifestLoaded' = FALSE
  /\ manifest' = "null"
  /\ io' = DisconnectRegistered
  /\ observers' = [n \in Names |-> NoObserver]
  /\ stats' = ZeroStats
  /\ UNCHANGED <<config, poAvailable, htmlCache, head, calls, manifestFailed>>
  /\ UNCHANGED <<dom, callback, wrap>>

\* reset(): clearCache, clearCSSCache, disconnectAll, zero statistics
Reset ==
  /\ UNCHANGED buildVars
  /\ started < MaxStarts
  /\ ~(HtmlCacheEmpty /\ CssStateClear /\ stats = ZeroStats /\ RegistryEmpty)
  /\ started' = started + 1
  /\ htmlCache' = [n \in Names |-> NoEntry]
  /\ cssCache' = {}
  /\ baseCssLoaded' = FALSE
  /\ legacyCssLoaded' = FALSE
  /\ manifestLoaded' = FALSE
  /\ manifest' = "null"
  /\ io' = DisconnectRegistered
  /\ observers' = [n \in Names |-> NoObserver]
  /\ stats' = ZeroStats
  /\ UNCHANGED <<config, poAvailable, head, calls, manifestFailed>>
  /\ UNCHANGED <<dom, callback, wrap>>

(***************************************************************************)
(* inject                                                                  *)
(***************************************************************************)
\* inject(componentName, targetSelector) up to `await this.load(...)`
Inject(c, n, s) ==
  /\ started < MaxStarts
  /\ started' = started + 1
  /\ StartLoad(c, n)
  /\ wrap' = [wrap EXCEPT ![c] = [NoWrap EXCEPT !.op = "inject", !.selector = s,
                                                !.outcome = "pending",
                                                !.linked = (head' # head)]]
  /\ UNCHANGED <<buildVars, dom, observers, io, callback>>

\* a rejection that nothing catches
RejectionEscapes(w) == "rejected"

\* a rejection of inject(): the viewport callback attaches .catch, which logs
\* it; a direct caller receives it
Rejection(w) == IF w.obs # NoObserver THEN "caught" ELSE "rejected"

\* a missing target that is not reported to onError
TargetMissingSilent(w) ==
  [w EXCEPT !.outcome = Rejection(w), !.message = w.selector]

\* the branch of inject() for a selector that matches nothing
TargetMissing(w) ==
  [w EXCEPT !.outcome = Rejection(w), !.message = w.selector, !.onErr = @ + 1]

\* an inject() awaits a load() that has settled
InjectPending(c) == calls[c].pc = "done" /\ wrap[c].outcome = "pending"

\* inject() after `await this.load(componentName)`
InjectTarget(c) ==
  /\ InjectPending(c)
  /\ callback = NoCallback
  /\ LET w == wrap[c]
     IN IF calls[c].result = "rejected"
          THEN /\ wrap' = [wrap EXCEPT ![c] = [w EXCEPT !.outcome = Rejection(w),
                                                        !.message = "load"]]
               /\ UNCHANGED dom
          ELSE IF dom[w.selector] # NoElement
            THEN /\ dom' = [dom EXCEPT ![w.selector] = calls[c].value]
                 /\ wrap' = [wrap EXCEPT ![c] = [w EXCEPT !.outcome = "resolved",
                                                          !.wrote = TRUE]]
            ELSE /\ wrap' = [wrap EXCEPT ![c] = TargetMissing(w)]
                 /\ UNCHANGED dom
  /\ UNCHANGED <<config, poAvailable, htmlCache, cssCache, manifest,
                 manifestLoaded, baseCssLoaded, legacyCssLoaded, stats, head,
                 calls, started, manifestFailed>>
  /\ UNCHANGED <<observers, io, callback>>
  /\ UNCHANGED buildVars

(***************************************************************************)
(* observeAndLoad                                                          *)
(***************************************************************************)
\* observeAndLoad(componentName, targetSelector): with no target it only
\* warns; otherwise a new observer watches the target and is registered under
\* the component name
ObserveAndLoad(n, s) ==
  /\ dom[s] # NoElement
  /\ \E o \in ObsIds :
       /\ io[o].state = "unused"
       /\ \A q \in ObsIds : q < o => io[q].state # "unused"
       /\ io' = [io EXCEPT ![o] = [IdleObserver EXCEPT !.state = "active",
                                                       !.name = n, !.selector = s]]
       /\ observers' = [observers EXCEPT ![n] = o]
  /\ started < MaxStarts
  /\ started' = started + 1
  /\ UNCHANGED <<config, poAvailable, htmlCache, cssCache, manifest,
                 manifestLoaded, baseCssLoaded, legacyCssLoaded, stats, head,
                 calls, manifestFailed>>
  /\ UNCHANGED <<dom, callback, wrap>>
  /\ UNCHANGED buildVars

\* the number of intersecting entries in a list
Intersecting(entries) == Cardinality({i \in DOMAIN entries : entries[i]})

\* the load() activations free to run
FreeCalls == {c \in Calls : Settled(c)}

\* the browser hands the queued entries of an observing observer to its
\* callback; an entry can only be intersecting while the target is in the page
Intersect(o, entries) ==
  /\ io[o].state = "active"
  /\ callback = NoCallback
  /\ Intersecting(entries) > 0      \* with none the callback does nothing
  /\ dom[io[o].selector] # NoElement
  /\ Intersecting(entries) <= Cardinality(FreeCalls)
  /\ callback' = [obs |-> o, left |-> Intersecting(entries)]
  /\ UNCHANGED <<config, poAvailable, htmlCache, cssCache, manifest,
                 manifestLoaded, baseCssLoaded, legacyCssLoaded, stats, head,
                 calls, started, manifestFailed>>
  /\ UNCHANGED <<dom, observers, io, wrap>>
  /\ UNCHANGED buildVars

\* one round of `entries.forEach((entry) => { if (entry.isIntersecting) ... })`:
\* inject, observer.disconnect(), this.observers.delete(componentName)
CallbackEntry(c) ==
  /\ callback # NoCallback
  /\ LET o == callback.obs
     IN /\ callback' = IF callback.left = 1 THEN NoCallback
                                            ELSE [callback EXCEPT !.left = @ - 1]
        /\ StartLoad(c, io[o].name)
        /\ wrap' = [wrap EXCEPT ![c] =
                      [NoWrap EXCEPT !.op = "inject", !.selector = io[o].selector,
                                     !.obs = o, !.outcome = "pending",
                                     !.linked = (head' # head)]]
        /\ io' = [io EXCEPT ![o] = [@ EXCEPT !.state = "disconnected",
                                             !.injects = @ + 1]]
        /\ observers' = [observers EXCEPT ![io[o].name] = NoObserver]
  /\ UNCHANGED <<dom, started>>
  /\ UNCHANGED buildVars

\* a script of the page removes an element
RemoveElement(s) ==
  /\ dom[s] # NoElement
  /\ dom' = [dom EXCEPT ![s] = NoElement]
  /\ UNCHANGED <<config, poAvailable, htmlCache, cssCache, manifest,
                 manifestLoaded, baseCssLoaded, legacyCssLoaded, stats, head,
                 calls, started, manifestFailed>>
  /\ UNCHANGED <<observers, io, callback, wrap>>
  /\ UNCHANGED buildVars

\* load() called while no other load() is in progress
LoadAlone(c, n) ==
  /\ \A d \in Calls : Settled(d)
  /\ Load(c, n)

LoaderSteps ==
  \/ \E c \in Calls, o \in Outcomes : ManifestResponse(c, o)
  \/ \E c \in Calls : ManifestRetry(c)
  \/ \E c \in Calls : LoadBaseCSSLink(c)
  \/ \E c \in Calls : LoadComponentCSS(c)
  \/ \E c \in Calls : LinkOnload(c)
  \/ \E c \in Calls : LinkOnerror(c)
  \/ \E c \in Calls : FetchHTML(c)
  \/ \E c \in Calls, o \in Outcomes : FetchResponse(c, o)
  \/ \E c \in Calls : RetryTimer(c)
  \/ \E c \in Calls, t \in BOOLEAN : StoreAndReturn(c, t)

\* one load() at a time, with the cache-clearing calls in between and during
LoaderNext ==
  \/ \E c \in Calls, n \in Names : LoadAlone(c, n)
  \/ LoaderSteps
  \/ ClearCache
  \/ ClearCSSCache
  \/ Reset

\* load() with retry on, one at a time: the fetch loop and its timers
RetryNext ==
  \/ \E c \in Calls, n \in Names : LoadAlone(c, n)
  \/ \E c \in Calls : LinkOnload(c)
  \/ \E c \in Calls : FetchHTML(c)
  \/ \E c \in Calls, o \in Outcomes : FetchResponse(c, o)
  \/ \E c \in Calls : RetryTimer(c)
  \/ \E c \in Calls : StoreAndReturn(c, FALSE)

\* load() calls overlapping in time, as preloadBatch(names) makes them
\* (names.map((name) => this.preload(name)) starts every load before any of
\* them continues), in legacy stylesheet mode
BatchNext ==
  \/ \E c \in Calls, n \in Names : Load(c, n)
  \/ \E c \in Calls : LinkOnload(c)
  \/ \E c \in Calls : LinkOnerror(c)
  \/ \E c \in Calls : FetchHTML(c)
  \/ \E c \in Calls, o \in Outcomes : FetchResponse(c, o)
  \/ \E c \in Calls : RetryTimer(c)
  \/ \E c \in Calls, t \in BOOLEAN : StoreAndReturn(c, t)

\* load() calls overlapping in time
ConcurrentNext ==
  \/ \E c \in Calls, n \in Names : Load(c, n)
  \/ LoaderSteps

\* no callback is running and no inject() continuation is due
PageQuiet == callback = NoCallback /\ \A c \in Calls : ~InjectPending(c)

\* the page makes its own calls one at a time; the viewport callbacks come
\* when they come
PageIdle == PageQuiet /\ \A c \in Calls : Settled(c)

\* what the page's fetches meet: a 2xx response or a network error
PageOutcomes == {"ok", "neterr"}

\* the continuations of load() in legacy stylesheet mode without retry, the
\* stylesheet loading and the resource observer starting
PageSteps ==
  \/ \E c \in Calls : LinkOnload(c)
  \/ \E c \in Calls : FetchHTML(c)
  \/ \E c \in Calls, o \in PageOutcomes : FetchResponse(c, o)
  \/ \E c \in Calls : StoreAndReturn(c, FALSE)

PageInject(c, n, s) == PageIdle /\ Inject(c, n, s)

PageObserveAndLoad(n, s) == PageIdle /\ ObserveAndLoad(n, s)

PageIntersect(o, es) == PageQuiet /\ Intersect(o, es)

\* the target goes away while an inject() is under way (an element missing
\* from the start is "#none")
PageRemoveElement(s) ==
  /\ PageQuiet
  /\ \E c \in Calls : wrap[c].outcome = "pending"
  /\ RemoveElement(s)

PageContinue == PageQuiet /\ PageSteps

PageLoad(c, n) == PageIdle /\ Load(c, n)

PageClearCache == PageQuiet /\ ClearCache

PageClearCSSCache == PageQuiet /\ ClearCSSCache

PageDisconnectAll == PageQuiet /\ DisconnectAll

PageReset == PageQuiet /\ Reset

\* a page that injects fragments, at once or when their targets come into
\* view
PageNext ==
  \/ \E c \in Calls : InjectTarget(c)
  \/ \E c \in Calls : CallbackEntry(c)
  \/ \E c \in Calls, n \in Names, s \in Selectors : PageInject(c, n, s)
  \/ \E n \in Names, s \in Selectors : PageObserveAndLoad(n, s)
  \/ \E o \in ObsIds, es \in EntryLists : PageIntersect(o, es)
  \/ \E s \in Selectors : PageRemoveElement(s)
  \/ PageContinue

\* a page that uses every method of the loader, its elements staying
SessionNext ==
  \/ \E c \in Calls : InjectTarget(c)
  \/ \E c \in Calls : CallbackEntry(c)
  \/ \E c \in Calls, n \in Names, s \in Selectors : PageInject(c, n, s)
  \/ \E n \in Names, s \in Selectors : PageObserveAndLoad(n, s)
  \/ \E o \in ObsIds, es \in EntryLists : PageIntersect(o, es)
  \/ PageContinue
  \/ \E c \in Calls, n \in Names : PageLoad(c, n)
  \/ PageClearCache
  \/ PageClearCSSCache
  \/ PageDisconnectAll
  \/ PageReset

(***************************************************************************)
(***************************************************************************)
(* The build-time pipeline: src/index.ts (astroPrerenderPlugin)            *)
(***************************************************************************)
(***************************************************************************)
MaxPasses == 2          \* full passes in one plugin process
MaxEdits == 1           \* source edits in a behaviour
MaxRestarts == 1         \* restarts of the dev server
MaxLen == 3             \* pieces of markup in an HTML input
MaxNodes == 2           \* top-level nodes of a component's template
MaxOps == 5             \* methods a direct caller calls on one object

Paths == {"Header.astro", "sub/Footer.astro"}

\* the order in which findComponents lists the sources
PathOrder == <<"Header.astro", "sub/Footer.astro">>

\* basename(componentPath, '.astro')
Basename(p) == IF p = "Header.astro" THEN "Header" ELSE "Footer"

OutNames == {Basename(p) : p \in Paths}

\* source contents: two that render, one the compiler cannot parse, one whose
\* template is empty
Contents == {"c1", "c2", "bad", "empty"}
Absent == "<absent>"

\* what the sources hold when the plugin starts; the other contents arrive by
\* an edit, before the first pass or later
InitialContents == {"c1", Absent}

\* processComponent activations: the full pass's, and those of the watcher's
\* 'change' and 'add' handlers, which nothing keeps from overlapping
Handlers == {"h1", "h2"}
Tasks == {"pass"} \cup Handlers

\* getFileHash: MD5 of the content
Hash(c) == <<"md5", c>>
NoHash == <<"undefined", "">>

NoFile == [kind |-> "nofile", by |-> "", src |-> ""]

\* what render() hands back: a string (empty or not), null, or an exception
Html(r, c) == [kind |-> "html", by |-> r, src |-> c]
EmptyString(r) == [kind |-> "empty", by |-> r, src |-> ""]
Null(r) == [kind |-> "null", by |-> r, src |-> ""]
Threw(r) == [kind |-> "threw", by |-> r, src |-> ""]

\* JavaScript truthiness of `html`
Truthy(h) == h.kind = "html"

\* ParserRenderer.render on the content it reads
ParserRender(c) ==
  IF c = Absent \/ c = "bad" THEN Threw("parser")   \* readFile or parse() throws
  ELSE IF c = "empty" THEN EmptyString("parser")
  ELSE Html("parser", c)

\* a render that lets a failure of ssrLoadModule escape
ContainerResultRethrowing(c, server, loads, renders) ==
  IF c = Absent THEN Threw("container")
  ELSE IF server # "live" THEN Null("container")
  ELSE IF ~loads \/ ~renders \/ c = "bad" THEN Threw("container")
  ELSE IF c = "empty" THEN EmptyString("container")
  ELSE Html("container", c)

\* ContainerRenderer.render(componentPath) on content c.  server: no Vite
\* server was set, one without ssrLoadModule, or a live one; loads: whether
\* ssrLoadModule resolves; renders: whether renderToString resolves (it
\* rejects on a component the compiler cannot parse)
ContainerResult(c, server, loads, renders) ==
  IF c = Absent THEN Threw("container")
  ELSE IF server # "live" THEN Null("container")
  ELSE IF ~loads THEN Null("container")
  ELSE IF ~renders \/ c = "bad" THEN Threw("container")
  ELSE IF c = "empty" THEN EmptyString("container")
  ELSE Html("container", c)

\* a container renderer that has a Vite server in every mode
ContainerRenderLive(c) ==
  {ContainerResult(c, "live", loads, renders) :
     loads \in BOOLEAN, renders \in BOOLEAN}

\* ContainerRenderer.render: the results it can produce on the content it
\* reads.  Without a Vite server it returns null; with one, ssrLoadModule may
\* fail (null) and renderToString may throw.
ContainerRender(c) ==
  {ContainerResult(c, IF viteServer THEN "live" ELSE "none", loads, renders) :
     loads \in BOOLEAN, renders \in BOOLEAN}

\* extractStyles(html), extractClasses(cleanHTML(html))
ExtractStyles(h) == IF h.src = "c1" THEN <<"s1">> ELSE <<>>
ExtractClasses(h) == IF h.src = "c1" THEN <<"k1">> ELSE <<"k2", "k1">>

\* minifyHTML(cleanHTML(html)): the bytes written to the fragment file
FragmentBytes(h) == [kind |-> "fragment", by |-> h.by, src |-> h.src]

NoCss == [kind |-> "nofile", via |-> "none", utilities |-> {}, styles |-> <<>>]

\* the utility CSS compiler before any invocation
NoCompiler == [inputs |-> {}, calls |-> 0]

\* a direct caller of the CSSGenerator: the number of its calls, the last
\* method it called and how that ended, the class tokens and the style blocks
\* it passed since the last clear()
NoGenOps == [n |-> 0, last |-> "none", result |-> "returned", added |-> {},
             styled |-> <<>>]

\* no pure function applied; n counts the applications of cleanHTML, or the
\* warnings of a render
NoPure == [fn |-> "none", in |-> <<>>, first |-> <<>>, out |-> <<>>, n |-> 0]

\* before `watch(componentsPath, ...)`
NoWatcher == [on |-> FALSE, events |-> {}]

\* no watcher, no direct caller, no restart yet
AuxInit ==
  /\ compiler = NoCompiler
  /\ genOps = NoGenOps
  /\ cacheLog = <<>>
  /\ watcher = NoWatcher
  /\ unlinked = {}
  /\ restarts = 0
  /\ pure = NoPure

IdleTask == [pc |-> "idle", path |-> "Header.astro", hash |-> NoHash,
             html |-> NoFile,
             log |-> <<>>,       \* history: the renderers called and their results
             wrote |-> FALSE,    \* history: the fragment was written
             cache0 |-> NoHash,  \* history: the cache entry when processing began
             frag0 |-> NoFile]   \* history: the fragment file when processing began

IdlePass == [pc |-> "idle", queue |-> <<>>,
             found |-> {}]       \* history: the components findComponents listed

\* history of one component in one full pass: how processComponent ended, the
\* hash it computed first, whether the cache entry is the one it found,
\* whether the cache entry is that hash, the number of render() calls, whether
\* it wrote, whether the fragment file holds what it held before
NoRecord == [kind |-> "none", hash |-> NoHash, entryKept |-> TRUE,
             entryIsHash |-> FALSE, renders |-> 0, wrote |-> FALSE,
             fragKept |-> TRUE]

\* the ways processComponent ends without a fragment: a renderer threw, no
\* renderer gave a result, the write failed
Failures == {"renderThrew", "noResult", "writeFailed"}

\* what is remembered of a component's record once the next pass has begun:
\* "kept" when the pass left the cache entry equal to the hash it computed
\* (the fragment was written, or skipped as cached), "failed" when it ended
\* without a fragment
Summary(rec) ==
  [kind |-> IF rec.kind = "none" THEN "none"
            ELSE IF rec.kind \in {"written", "skipped"} /\ rec.entryIsHash THEN "kept"
            ELSE IF rec.kind \in Failures THEN "failed"
            ELSE "other",
   hash |-> rec.hash]

BuildInit ==
  /\ options \in [renderer : {"parser", "container"},
                  command : {"build", "serve"},
                  generateTailwindCSS : BOOLEAN]
  /\ files \in [Paths -> InitialContents]
  /\ cache = [p \in Paths |-> NoHash]
  /\ loaded = FALSE
  /\ persisted = [p \in Paths |-> NoHash]
  /\ viteServer = FALSE
  /\ classes = <<>>
  /\ componentStyles = <<>>
  /\ cssOut = NoCss
  /\ fragments = [n \in OutNames |-> NoFile]
  /\ pass = IdlePass
  /\ task = [t \in Tasks |-> IdleTask]
  /\ prev = [p \in Paths |-> Summary(NoRecord)]
  /\ cur = [p \in Paths |-> NoRecord]
  /\ passes = 0
  /\ edits = 0
  /\ AuxInit

(***************************************************************************)
(* CSSGenerator                                                            *)
(***************************************************************************)
\* the elements of a list
Range(s) == {s[i] : i \in DOMAIN s}

\* a class set that keeps only the first token it is given
AddClassFirstOnly(acc, cls) == IF acc = <<>> THEN <<cls>> ELSE acc

\* this.classes.add(cls): a Set keeps its elements in insertion order
AddClass(acc, cls) == IF cls \in Range(acc) THEN acc ELSE Append(acc, cls)

RECURSIVE AddClasses(_, _)
\* classes.forEach((cls) => this.classes.add(cls))
AddClasses(acc, list) ==
  IF list = <<>> THEN acc ELSE AddClasses(AddClass(acc, Head(list)), Tail(list))

\* this.componentStyles.push(...styles)
AddStyles(acc, list) == acc \o list

\* the utility rules the compiler emits for the class tokens it is given
UtilityRules(input) == Range(input)

(***************************************************************************)
(* CacheManager                                                            *)
(***************************************************************************)
\* a cache that never recognises a stored hash
IsCachedNever(p, h) == FALSE

\* this.cache.getKey(componentPath) === hash
IsCached(p, h) == cache[p] = h

\* a delete that empties the whole cache
DeleteKeyAll(c, p) == [q \in Paths |-> NoHash]

\* this.cache.setKey(componentPath, hash)
SetKey(c, p, h) == [c EXCEPT ![p] = h]

\* this.cache.delete(componentPath)
DeleteKey(c, p) == [c EXCEPT ![p] = NoHash]

\* a store file that does not parse
CorruptStore == [p \in Paths |-> <<"corrupt", "">>]

\* FlatCache.load: the entries the store file yields; a missing file (no
\* entries) or one that does not parse yields none, without an error
ReadStore(store) ==
  IF store = CorruptStore THEN [p \in Paths |-> NoHash] ELSE store

\* a load() that reads the store at every call, replacing the entries
CacheLoadAlways ==
  cache' = ReadStore(persisted) /\ loaded' = TRUE

\* load(): reads the store once per process; the entries read are added to
\* those in memory
CacheLoad ==
  IF loaded THEN UNCHANGED <<cache, loaded>>
  ELSE /\ cache' = [p \in Paths |-> IF ReadStore(persisted)[p] # NoHash
                                      THEN ReadStore(persisted)[p] ELSE cache[p]]
       /\ loaded' = TRUE

(***************************************************************************)
(* processComponent                                                        *)
(***************************************************************************)
BeginTask(p, entry) ==
  [IdleTask EXCEPT !.pc = "check", !.path = p, !.cache0 = entry,
                   !.frag0 = fragments[Basename(p)]]

\* processComponent without its try/catch around one component: a failure
\* ends the loop of processAll, the components still queued are dropped
FinishStoppingLoop(t, tk, kind, entry) ==
  /\ cur' = [cur EXCEPT ![tk.path] =
               [kind |-> kind, hash |-> tk.hash, entryKept |-> (entry = tk.cache0),
                entryIsHash |-> (entry = tk.hash),
                renders |-> Len(tk.log), wrote |-> tk.wrote,
                fragKept |-> (fragments[Basename(tk.path)] = tk.frag0)]]
  /\ IF pass.queue = <<>> \/ kind \in Failures
       THEN /\ pass' = [pass EXCEPT !.pc = "generate"]
            /\ task' = [task EXCEPT ![t] = IdleTask]
       ELSE /\ pass' = [pass EXCEPT !.queue = Tail(@)]
            /\ task' = [task EXCEPT ![t] =
                          BeginTask(Head(pass.queue), cache[Head(pass.queue)])]

\* processComponent returns (normally, or through its catch clause); kind says
\* how, entry is the cache entry it leaves.  The for loop of processAll then
\* calls processComponent for the next component, or goes on to generateCSS.
\* In a watcher handler, `await generateCSS()` comes next.
Finish(t, tk, kind, entry) ==
  IF t \in Handlers
    THEN /\ task' = [task EXCEPT ![t] = [tk EXCEPT !.pc = "css"]]
         /\ UNCHANGED <<cur, pass>>
    ELSE
  /\ cur' = [cur EXCEPT ![tk.path] =
               [kind |-> kind, hash |-> tk.hash, entryKept |-> (entry = tk.cache0),
                entryIsHash |-> (entry = tk.hash),
                renders |-> Len(tk.log), wrote |-> tk.wrote,
                fragKept |-> (fragments[Basename(tk.path)] = tk.frag0)]]
  /\ IF pass.queue = <<>>
       THEN /\ pass' = [pass EXCEPT !.pc = "generate"]
            /\ task' = [task EXCEPT ![t] = IdleTask]
       ELSE /\ pass' = [pass EXCEPT !.queue = Tail(@)]
            /\ task' = [task EXCEPT ![t] =
                          BeginTask(Head(pass.queue), cache[Head(pass.queue)])]

\* `const hash = await getFileHash(componentPath); if (isCached(...)) return`
CheckCache(t) ==
  /\ task[t].pc = "check"
  /\ LET tk == task[t]
         c == files[tk.path]
     IN IF c = Absent
          THEN Finish(t, tk, "checkFailed", cache[tk.path])
          ELSE IF IsCached(tk.path, Hash(c))
            THEN Finish(t, [tk EXCEPT !.hash = Hash(c)], "skipped", cache[tk.path])
            ELSE /\ task' = [task EXCEPT ![t] = [tk EXCEPT !.pc = "render",
                                                          !.hash = Hash(c)]]
                 /\ UNCHANGED <<cur, pass>>
  /\ UNCHANGED <<options, files, cache, loaded, persisted, viteServer, classes,
                 componentStyles, cssOut, fragments, prev, passes, edits>>
  /\ UNCHANGED <<loaderVars, auxVars, compiler>>

\* `if (!html && parserFallback)`: parserFallback exists when the renderer
\* option is 'container'
FallsBack(h) == ~Truthy(h) /\ options.renderer = "container"

\* what follows a renderer's result r: the catch clause, the fallback, the end
\* of processComponent without output, or extraction of styles and classes
AfterRender(t, tk, r, mayFallBack) ==
  LET tk2 == [tk EXCEPT !.log = Append(@, r)]
  IN CASE r.kind = "threw" ->
            /\ Finish(t, tk2, "renderThrew", cache[tk.path])
            /\ UNCHANGED <<classes, componentStyles>>
       [] r.kind # "threw" /\ mayFallBack /\ FallsBack(r) ->
            /\ task' = [task EXCEPT ![t] = [tk2 EXCEPT !.pc = "fallback"]]
            /\ UNCHANGED <<cur, pass, classes, componentStyles>>
       [] r.kind # "threw" /\ ~(mayFallBack /\ FallsBack(r)) /\ ~Truthy(r) ->
            /\ Finish(t, tk2, "noResult", cache[tk.path])
            /\ UNCHANGED <<classes, componentStyles>>
       [] Truthy(r) ->
            /\ task' = [task EXCEPT ![t] = [tk2 EXCEPT !.pc = "write", !.html = r]]
            /\ componentStyles' = AddStyles(componentStyles, ExtractStyles(r))
            /\ classes' = AddClasses(classes, ExtractClasses(r))
            /\ UNCHANGED <<cur, pass>>

\* `let html = await componentRenderer.render(componentPath)`
RenderPrimary(t) ==
  /\ task[t].pc = "render"
  /\ LET tk == task[t]
     IN IF options.renderer = "container"
          THEN \E r \in ContainerRender(files[tk.path]) : AfterRender(t, tk, r, TRUE)
          ELSE AfterRender(t, tk, ParserRender(files[tk.path]), TRUE)
  /\ UNCHANGED <<options, files, cache, loaded, persisted, viteServer, cssOut,
                 fragments, prev, passes, edits>>
  /\ UNCHANGED <<loaderVars, auxVars, compiler>>

\* `html = await parserFallback.render(componentPath)`
RenderFallback(t) ==
  /\ task[t].pc = "fallback"
  /\ AfterRender(t, task[t], ParserRender(files[task[t].path]), FALSE)
  /\ UNCHANGED <<options, files, cache, loaded, persisted, viteServer, cssOut,
                 fragments, prev, passes, edits>>
  /\ UNCHANGED <<loaderVars, auxVars, compiler>>

\* `await writeFileWithDir(htmlOutputPath, cleanedHTML)`; a failed write
\* leaves the file as it was
WriteFragment(t, ok) ==
  /\ task[t].pc = "write"
  /\ LET tk == task[t]
     IN IF ok
          THEN /\ fragments' = [fragments EXCEPT ![Basename(tk.path)] = FragmentBytes(tk.html)]
               /\ task' = [task EXCEPT ![t] = [tk EXCEPT !.pc = "sethash", !.wrote = TRUE]]
               /\ UNCHANGED <<cur, pass>>
          ELSE /\ Finish(t, tk, "writeFailed", cache[tk.path])
               /\ UNCHANGED fragments
  /\ UNCHANGED <<options, files, cache, loaded, persisted, viteServer, classes,
                 componentStyles, cssOut, prev, passes, edits>>
  /\ UNCHANGED <<loaderVars, auxVars, compiler>>

\* `const hash = await getFileHash(componentPath); cacheManager.set(path, hash)`
UpdateCache(t) ==
  /\ task[t].pc = "sethash"
  /\ LET tk == task[t]
         c == files[tk.path]
     IN IF c = Absent
          THEN Finish(t, tk, "setFailed", cache[tk.path]) /\ UNCHANGED cache
          ELSE /\ cache' = SetKey(cache, tk.path, Hash(c))
               /\ Finish(t, tk, "written", Hash(c))
  /\ UNCHANGED <<options, files, loaded, persisted, viteServer, classes,
                 componentStyles, cssOut, fragments, prev, passes, edits>>
  /\ UNCHANGED <<loaderVars, auxVars, compiler>>

(***************************************************************************)
(* processAll, generateCSS                                                 *)
(***************************************************************************)
\* findComponents: the sources that exist, in listing order
ComponentFiles == SelectSeq(PathOrder, LAMBDA p : files[p] # Absent)

\* processAll up to the first `await processComponent(...)`: load the cache,
\* clear the stylesheet generator, discover; with nothing discovered it
\* returns at once
ProcessAll ==
  /\ pass.pc = "idle"
  /\ CacheLoad
  /\ classes' = <<>>
  /\ componentStyles' = <<>>
  /\ prev' = [p \in Paths |-> Summary(cur[p])]
  /\ cur' = [p \in Paths |-> NoRecord]
  /\ IF ComponentFiles = <<>>
       THEN UNCHANGED <<pass, task>>
       ELSE /\ pass' = [pc |-> "proc", queue |-> Tail(ComponentFiles),
                        found |-> {ComponentFiles[i] : i \in 1..Len(ComponentFiles)}]
            /\ task' = [task EXCEPT !["pass"] =
                          BeginTask(Head(ComponentFiles), cache'[Head(ComponentFiles)])]

\* buildStart: a full pass when config.command is 'build'
BuildStart ==
  /\ options.command = "build"
  /\ passes < MaxPasses
  /\ passes' = passes + 1
  /\ ProcessAll
  /\ UNCHANGED <<options, files, persisted, viteServer, cssOut, fragments, edits>>
  /\ UNCHANGED <<loaderVars, auxVars, compiler>>

\* watch(componentsPath, {ignored, persistent}): the watcher reports every
\* file it finds at start-up by an 'add' event (ignoreInitial is not set)
WatchStarted ==
  [on |-> TRUE,
   events |-> {[kind |-> "add", path |-> p] : p \in {q \in Paths : files[q] # Absent}}]

\* configureServer: hand the dev server to the container renderer, then a
\* full pass; the watcher is registered once processAll has returned
ConfigureServer ==
  /\ options.command = "serve"
  /\ passes = 0
  /\ passes' = 1
  /\ viteServer' = (options.renderer = "container")
  /\ ProcessAll
  /\ watcher' = IF ComponentFiles = <<>> THEN WatchStarted ELSE watcher
  /\ UNCHANGED <<options, files, persisted, cssOut, fragments, edits>>
  /\ UNCHANGED <<sideVars, genOps, cacheLog, unlinked, restarts, compiler>>

\* CSSGenerator.generate: what it writes, if anything
GenerateOutput ==
  IF classes = <<>> /\ componentStyles = <<>> THEN NoCss
  ELSE IF ~options.generateTailwindCSS
    THEN (IF componentStyles # <<>>
            THEN [kind |-> "css", via |-> "direct", utilities |-> {},
                  styles |-> componentStyles]
            ELSE NoCss)
  ELSE [kind |-> "css", via |-> "postcss", utilities |-> UtilityRules(classes),
        styles |-> componentStyles]

\* generate reaches the dynamic imports and the compiler
CompilerRuns ==
  options.generateTailwindCSS /\ ~(classes = <<>> /\ componentStyles = <<>>)

\* how generate ends: it returns, the dynamic imports reject, the compiler or
\* the write throws
GenerateOutcomes == {"returned", "importThrew", "threw"}

\* generate that writes a stylesheet even when nothing was accumulated
GenerateWritingEmpty(outcome) ==
  /\ outcome = "importThrew" => CompilerRuns
  /\ outcome = "threw" => GenerateOutput.kind = "css"
  /\ cssOut' = IF outcome = "returned"
                 THEN [GenerateOutput EXCEPT !.kind = "css"] ELSE cssOut
  /\ compiler' = IF CompilerRuns /\ outcome # "importThrew"
                   THEN [inputs |-> compiler.inputs \cup {classes},
                         calls |-> compiler.calls + 1]
                   ELSE compiler

\* generate that runs the compiler whatever generateTailwind says
GenerateAlwaysCompiling(outcome) ==
  /\ outcome = "importThrew" => CompilerRuns
  /\ outcome = "threw" => GenerateOutput.kind = "css"
  /\ cssOut' = IF outcome = "returned" /\ GenerateOutput.kind = "css"
                 THEN GenerateOutput ELSE cssOut
  /\ compiler' = IF ~(classes = <<>> /\ componentStyles = <<>>)
                      /\ outcome # "importThrew"
                   THEN [inputs |-> compiler.inputs \cup {classes},
                         calls |-> compiler.calls + 1]
                   ELSE compiler

\* CSSGenerator.generate(outputPath): the file it writes and the compiler it
\* invokes with Array.from(this.classes)
Generate(outcome) ==
  /\ outcome = "importThrew" => CompilerRuns
  /\ outcome = "threw" => GenerateOutput.kind = "css"
  /\ cssOut' = IF outcome = "returned" /\ GenerateOutput.kind = "css"
                 THEN GenerateOutput ELSE cssOut
  /\ compiler' = IF CompilerRuns /\ outcome # "importThrew"
                   THEN [inputs |-> compiler.inputs \cup {classes},
                         calls |-> compiler.calls + 1]
                   ELSE compiler

\* `await generateCSS()` in processAll; a rejection ends processAll before
\* the cache is saved
GenerateCSS(outcome) ==
  /\ pass.pc = "generate"
  /\ Generate(outcome)
  /\ pass' = IF outcome = "returned" THEN [pass EXCEPT !.pc = "save"] ELSE IdlePass
  /\ UNCHANGED <<options, files, cache, loaded, persisted, viteServer, classes,
                 componentStyles, fragments, task, prev, cur, passes, edits>>
  /\ UNCHANGED <<loaderVars, auxVars>>

\* `await cacheManager.save()`, the end of processAll; configureServer then
\* registers the watcher
SaveCache ==
  /\ pass.pc = "save"
  /\ persisted' = cache
  /\ pass' = IdlePass
  /\ watcher' = IF options.command = "serve" THEN WatchStarted ELSE watcher
  /\ UNCHANGED <<options, files, cache, loaded, viteServer, classes,
                 componentStyles, cssOut, fragments, task, prev, cur, passes, edits>>
  /\ UNCHANGED <<sideVars, genOps, cacheLog, unlinked, restarts, compiler>>

\* somebody edits, creates or removes a source file
EditFile(p, c) ==
  /\ edits < MaxEdits
  /\ c # files[p]
  /\ edits' = edits + 1
  /\ files' = [files EXCEPT ![p] = c]
  /\ UNCHANGED <<options, cache, loaded, persisted, viteServer, classes,
                 componentStyles, cssOut, fragments, pass, task, prev, cur, passes>>
  /\ UNCHANGED <<loaderVars, auxVars, compiler>>

(***************************************************************************)
(* The dev server's watcher                                                *)
(***************************************************************************)
\* somebody removes a source file under the watched directory: the watcher
\* emits 'unlink'
RemoveFile(p) ==
  /\ watcher.on
  /\ files[p] # Absent
  /\ edits < MaxEdits
  /\ edits' = edits + 1
  /\ files' = [files EXCEPT ![p] = Absent]
  /\ watcher' = [watcher EXCEPT !.events = @ \cup {[kind |-> "unlink", path |-> p]}]
  /\ UNCHANGED <<options, cache, loaded, persisted, viteServer, classes,
                 componentStyles, cssOut, fragments, pass, task, prev, cur,
                 passes, compiler>>
  /\ UNCHANGED <<sideVars, genOps, cacheLog, unlinked, restarts>>

\* somebody writes a source file under the watched directory: the watcher
\* emits 'add' for a new file, 'change' for an existing one
WriteFile(p, c) ==
  /\ watcher.on
  /\ c # files[p]
  /\ edits < MaxEdits
  /\ edits' = edits + 1
  /\ files' = [files EXCEPT ![p] = c]
  /\ watcher' = [watcher EXCEPT !.events = @ \cup
                   {[kind |-> IF files[p] = Absent THEN "add" ELSE "change",
                     path |-> p]}]
  /\ UNCHANGED <<options, cache, loaded, persisted, viteServer, classes,
                 componentStyles, cssOut, fragments, pass, task, prev, cur,
                 passes, compiler>>
  /\ UNCHANGED <<sideVars, genOps, cacheLog, unlinked, restarts>>

\* the handler slot an event's callback runs in: the callbacks are
\* interchangeable, the first idle one is taken
FreeHandler == IF task["h1"].pc = "idle" THEN "h1" ELSE "h2"

\* watcher.on('change' | 'add', async (filePath) => ...): the callback is
\* entered when the event is emitted, whatever earlier callbacks are still
\* awaiting, and runs to the first await inside processComponent
OnChangeOrAdd(e) ==
  /\ e \in watcher.events
  /\ e.kind \in {"change", "add"}
  /\ task[FreeHandler].pc = "idle"
  /\ watcher' = [watcher EXCEPT !.events = @ \ {e}]
  /\ task' = [task EXCEPT ![FreeHandler] = BeginTask(e.path, cache[e.path])]
  /\ UNCHANGED <<options, files, cache, loaded, persisted, viteServer, classes,
                 componentStyles, cssOut, fragments, pass, prev, cur,
                 passes, edits, compiler>>
  /\ UNCHANGED <<sideVars, genOps, cacheLog, unlinked, restarts>>

\* `await generateCSS()` at the end of the 'change' and 'add' callbacks;
\* nothing follows it, the cache is not saved
HandlerGenerateCSS(t, outcome) ==
  /\ t \in Handlers
  /\ task[t].pc = "css"
  /\ Generate(outcome)
  /\ task' = [task EXCEPT ![t] = IdleTask]
  /\ UNCHANGED <<options, files, cache, loaded, persisted, viteServer, classes,
                 componentStyles, fragments, pass, prev, cur, passes, edits>>
  /\ UNCHANGED <<loaderVars, auxVars>>

\* watcher.on('unlink', ...): cacheManager?.delete(filePath), nothing else
OnUnlink(p) ==
  /\ [kind |-> "unlink", path |-> p] \in watcher.events
  /\ watcher' = [watcher EXCEPT !.events = @ \ {[kind |-> "unlink", path |-> p]}]
  /\ cache' = DeleteKey(cache, p)
  /\ unlinked' = unlinked \cup {p}
  /\ UNCHANGED <<options, files, loaded, persisted, viteServer, classes,
                 componentStyles, cssOut, fragments, pass, task, prev, cur,
                 passes, edits, compiler>>
  /\ UNCHANGED <<sideVars, genOps, cacheLog, restarts>>

\* the dev server is stopped and started again: configResolved constructs a
\* new CacheManager, CSSGenerator and renderers; the files on disk stay
Restart ==
  /\ passes > 0
  /\ restarts < MaxRestarts
  /\ restarts' = restarts + 1
  /\ passes' = 0
  /\ cache' = [p \in Paths |-> NoHash]
  /\ loaded' = FALSE
  /\ viteServer' = FALSE
  /\ classes' = <<>>
  /\ componentStyles' = <<>>
  /\ pass' = IdlePass
  /\ task' = [t \in Tasks |-> IdleTask]
  /\ watcher' = NoWatcher
  /\ UNCHANGED <<options, files, persisted, cssOut, fragments, prev, cur,
                 edits, compiler>>
  /\ UNCHANGED <<sideVars, genOps, cacheLog, unlinked>>

WatchNext ==
  \/ ConfigureServer
  \/ \E t \in Tasks : CheckCache(t)
  \/ \E t \in Tasks : RenderPrimary(t)
  \/ \E t \in Tasks : RenderFallback(t)
  \/ \E t \in Tasks, ok \in BOOLEAN : WriteFragment(t, ok)
  \/ \E t \in Tasks : UpdateCache(t)
  \/ \E outcome \in GenerateOutcomes : GenerateCSS(outcome)
  \/ SaveCache
  \/ \E p \in Paths : RemoveFile(p)
  \/ \E p \in Paths : OnUnlink(p)
  \/ Restart

\* one run of the dev server: the first pass, then the watcher's three
\* callbacks as files are written and removed
HandlersNext ==
  \/ ConfigureServer
  \/ \E t \in Tasks : CheckCache(t)
  \/ \E t \in Tasks : RenderPrimary(t)
  \/ \E t \in Tasks : RenderFallback(t)
  \/ \E t \in Tasks, ok \in BOOLEAN : WriteFragment(t, ok)
  \/ \E t \in Tasks : UpdateCache(t)
  \/ \E outcome \in GenerateOutcomes : GenerateCSS(outcome)
  \/ SaveCache
  \/ \E p \in Paths : RemoveFile(p)
  \/ \E p \in Paths, c \in Contents : WriteFile(p, c)
  \/ \E p \in Paths, k \in {"change", "add"} : OnChangeOrAdd([kind |-> k, path |-> p])
  \/ \E t \in Handlers, outcome \in GenerateOutcomes : HandlerGenerateCSS(t, outcome)
  \/ \E p \in Paths : OnUnlink(p)

(***************************************************************************)
(* cleanHTML                                                               *)
(***************************************************************************)
\* An HTML string is a list of pieces: a script element, a style element, a
\* meta element, white space, text, a p element, a p element carrying a
\* data-astro-source-* attribute, a p element carrying a data-astro-cid-*
\* attribute.  DocOpen, DocMid and DocClose are the tags Cheerio wraps a
\* document in: <html><head>, </head><body>, </body></html>.
Pieces == {"script", "style", "meta", "ws", "text", "p", "pSrc", "pCid"}
DocOpen == "<html><head>"
DocMid == "</head><body>"
DocClose == "</body></html>"

\* the HTML strings a renderer hands to cleanHTML
HtmlInputs == UNION {[1..k -> Pieces] : k \in 0..MaxLen}

RECURSIVE TrimStart(_)
TrimStart(h) ==
  IF h # <<>> /\ Head(h) = "ws" THEN TrimStart(Tail(h)) ELSE h

RECURSIVE TrimEnd(_)
TrimEnd(h) ==
  IF h # <<>> /\ h[Len(h)] = "ws" THEN TrimEnd(SubSeq(h, 1, Len(h) - 1)) ELSE h

\* String.prototype.trim
Trim(h) == TrimEnd(TrimStart(h))

RECURSIVE HeadLength(_)
\* the pieces the parser puts into the head: those before the first piece of
\* body content
HeadLength(h) ==
  IF h # <<>> /\ Head(h) \in {"script", "style", "meta", "ws"}
    THEN 1 + HeadLength(Tail(h)) ELSE 0

\* cheerio.load(html): the document, its head and its body
CheerioLoad(h) ==
  IF h # <<>> /\ Head(h) = DocOpen
    THEN LET mid == CHOOSE i \in 1..Len(h) : h[i] = DocMid
         IN [head |-> SubSeq(h, 2, mid - 1), body |-> SubSeq(h, mid + 1, Len(h) - 1)]
    ELSE LET t == TrimStart(h)
         IN [head |-> SubSeq(t, 1, HeadLength(t)),
             body |-> SubSeq(t, HeadLength(t) + 1, Len(t))]

RECURSIVE RemoveFirstOnly(_)
\* a removal that stops after the first script or style element
RemoveFirstOnly(h) ==
  IF h = <<>> THEN h
  ELSE IF Head(h) \in {"script", "style"} THEN Tail(h)
  ELSE <<Head(h)>> \o RemoveFirstOnly(Tail(h))

\* $('script').remove(); $('style').remove()
RemoveElements(h) == SelectSeq(h, LAMBDA t : t \notin {"script", "style"})

\* $el.removeAttr(attr) for the data-astro-source-* and data-astro-cid-*
\* attributes of every element
RemoveAttrs(h) ==
  [i \in DOMAIN h |-> IF h[i] \in {"pSrc", "pCid"} THEN "p" ELSE h[i]]

\* cleanHTML(html): the body's markup trimmed, or the whole document when
\* that is the empty string
CleanHTML(h) ==
  LET doc == CheerioLoad(h)
      hd == RemoveAttrs(RemoveElements(doc.head))
      body == RemoveAttrs(RemoveElements(doc.body))
  IN IF Trim(body) # <<>> THEN Trim(body)
     ELSE Trim(<<DocOpen>> \o hd \o <<DocMid>> \o body \o <<DocClose>>)

\* a renderer's output reaches cleanHTML
CleanInput(h) ==
  /\ pure' = [fn |-> "cleanHTML", in |-> h, first |-> h, out |-> h, n |-> 0]
  /\ UNCHANGED stateVars

\* cleanHTML applied to the string at hand
CleanApply ==
  /\ pure.fn = "cleanHTML"
  /\ pure.n < 2
  /\ pure' = [pure EXCEPT !.out = CleanHTML(pure.out),
                          !.first = IF pure.n = 0 THEN CleanHTML(pure.out) ELSE @,
                          !.n = @ + 1]
  /\ UNCHANGED stateVars

\* cleanHTML is handed one string
CleanInputs ==
  /\ pure.fn = "none"
  /\ \E h \in HtmlInputs : CleanInput(h)

CleanNext == CleanInputs \/ CleanApply

(***************************************************************************)
(* ParserRenderer                                                          *)
(***************************************************************************)
\* A rendered string is a list of atoms; ">" is an atom of its own wherever
\* it occurs, in a tag or in an attribute value.
\* the attribute lists of an element: none, class="a>b", title="{year}",
\* and a bare attribute
AttrLists ==
  {<<>>,
   <<[kind |-> "quoted", name |-> "class", value |-> <<"a", ">", "b">>]>>,
   <<[kind |-> "quoted", name |-> "title", value |-> <<"{", "year", "}">>]>>,
   <<[kind |-> "empty", name |-> "hidden", value |-> <<>>]>>}

\* text, an expression {year}, a reference to an imported component
LeafNodes ==
  {[type |-> "text", name |-> "hi", attributes |-> <<>>, children |-> <<>>],
   [type |-> "expression", name |-> "year", attributes |-> <<>>, children |-> <<>>],
   [type |-> "component", name |-> "Card", attributes |-> <<>>, children |-> <<>>]}

\* the nodes of a parsed template: leaves, and p and img elements holding at
\* most one leaf
Nodes ==
  LeafNodes \cup
  [type : {"element"}, name : {"p", "img"}, attributes : AttrLists,
   children : {<<>>} \cup {<<l>> : l \in LeafNodes}]

\* extractFrontmatter: the string literals the frontmatter assigns
Frontmatters == {<<>>, <<[key |-> "year", value |-> "2024"]>>}

\* the components a file can parse to
Components ==
  [vars : Frontmatters, children : UNION {[1..k -> Nodes] : k \in 1..MaxNodes}]

RECURSIVE Join(_, _)
\* Array.prototype.join
Join(parts, sep) ==
  IF parts = <<>> THEN <<>>
  ELSE IF Len(parts) = 1 THEN parts[1]
  ELSE parts[1] \o <<sep>> \o Join(Tail(parts), sep)

\* one attribute as written into the open tag
AttrToHTML(attr) ==
  IF attr.kind = "quoted" THEN <<attr.name, "=\"">> \o attr.value \o <<"\"">>
  ELSE IF attr.kind = "empty" THEN <<attr.name>>
  ELSE <<>>

RECURSIVE ReplaceFirst(_, _, _)
\* String.prototype.replace with a string pattern: the first occurrence only
ReplaceFirst(str, pattern, by) ==
  IF str = <<>> THEN str
  ELSE IF Head(str) = pattern THEN <<by>> \o Tail(str)
  ELSE <<Head(str)>> \o ReplaceFirst(Tail(str), pattern, by)

\* the open tag of an element
OpenTag(node) ==
  LET attrs == Join([i \in DOMAIN node.attributes |-> AttrToHTML(node.attributes[i])], " ")
  IN IF attrs # <<>> THEN <<"<", node.name, " ">> \o attrs \o <<">">>
     ELSE <<"<", node.name, ">">>

\* `{${String(node)}}`: the node is an object
ExpressionToHTML(node) == <<"{", "[object Object]", "}">>

RECURSIVE NodeToHTML(_)
\* nodeToHTML(node)
NodeToHTML(node) ==
  CASE node.type = "text" -> <<node.name>>
    [] node.type = "element" ->
         IF node.children = <<>>
           THEN IF node.name \in {"img", "br", "hr", "input", "meta", "link"}
                  THEN ReplaceFirst(OpenTag(node), ">", " />")
                  ELSE OpenTag(node) \o <<"</", node.name, ">">>
           ELSE OpenTag(node)
                  \o Join([i \in DOMAIN node.children |-> NodeToHTML(node.children[i])], "\n")
                  \o <<"</", node.name, ">">>
    [] node.type = "component" -> <<"<!-- Component: ", node.name, " -->">>
    [] node.type = "expression" -> ExpressionToHTML(node)
    [] OTHER -> <<>>

RECURSIVE Warnings(_)
\* the logger.warn calls nodeToHTML makes on a list of nodes
Warnings(nodes) ==
  IF nodes = <<>> THEN 0
  ELSE (IF Head(nodes).type = "component" THEN 1 ELSE 0)
         + Warnings(Head(nodes).children) + Warnings(Tail(nodes))

RECURSIVE ReplaceAll(_, _, _)
\* html.replace(/\{key\}/g, value)
ReplaceAll(str, key, value) ==
  IF Len(str) < 3 THEN str
  ELSE IF str[1] = "{" /\ str[2] = key /\ str[3] = "}"
    THEN <<value>> \o ReplaceAll(SubSeq(str, 4, Len(str)), key, value)
  ELSE <<Head(str)>> \o ReplaceAll(Tail(str), key, value)

RECURSIVE ReplaceFrontmatterVars(_, _)
\* replaceFrontmatterVars(html, vars)
ReplaceFrontmatterVars(html, fm) ==
  IF fm = <<>> THEN html
  ELSE ReplaceFrontmatterVars(ReplaceAll(html, Head(fm).key, Head(fm).value), Tail(fm))

\* ParserRenderer.render on a file that parses to component c
ParserRenderHTML(c) ==
  ReplaceFrontmatterVars(
    Join([i \in DOMAIN c.children |-> NodeToHTML(c.children[i])], "\n"), c.vars)

\* render(filePath) called on a component
RenderComponent(c) ==
  /\ pure' = [fn |-> "render", in |-> c, first |-> ParserRenderHTML(c),
              out |-> ParserRenderHTML(c), n |-> Warnings(c.children)]
  /\ UNCHANGED stateVars

\* the Vite server a ContainerRenderer holds
Servers == {"none", "noSsrLoadModule", "live"}

\* containerRenderer.render(componentPath) called directly
ContainerRenderCall(c, server, loads, renders) ==
  /\ pure' = [fn |-> "containerRender",
              in |-> [content |-> c, server |-> server, loads |-> loads],
              first |-> <<>>,
              out |-> ContainerResult(c, server, loads, renders), n |-> 0]
  /\ UNCHANGED stateVars

\* one call of the structural renderer
ParserRenderCalls ==
  /\ pure.fn = "none"
  /\ \E c \in Components : RenderComponent(c)

\* one call of the full renderer
ContainerRenderCalls ==
  /\ pure.fn = "none"
  /\ \E c \in Contents \cup {Absent}, server \in Servers, loads \in BOOLEAN,
        renders \in BOOLEAN : ContainerRenderCall(c, server, loads, renders)

ParserNext == ParserRenderCalls \/ ContainerRenderCalls

(***************************************************************************)
(* The CSSGenerator called directly                                        *)
(***************************************************************************)
\* the arguments of addClasses and addStyles
ClassLists ==
  {<<>>} \cup {<<a>> : a \in {"k1", "k2"}}
         \cup {<<a, b>> : a, b \in {"k1", "k2"}}

StyleLists == {<<>>, <<"s1">>, <<"s2">>}

GenCalled(method, result, added, styled) ==
  /\ genOps.n < MaxOps
  /\ genOps' = [n |-> genOps.n + 1, last |-> method, result |-> result,
                added |-> added, styled |-> styled]

\* generator.addClasses(list)
CallAddClasses(list) ==
  /\ GenCalled("addClasses", "returned", genOps.added \cup Range(list),
               genOps.styled)
  /\ classes' = AddClasses(classes, list)
  /\ UNCHANGED <<options, files, cache, loaded, persisted, viteServer,
                 componentStyles, cssOut, fragments, pass, task, prev, cur,
                 passes, edits, compiler>>
  /\ UNCHANGED <<sideVars, cacheLog, watcher, unlinked, restarts>>

\* generator.addStyles(list)
CallAddStyles(list) ==
  /\ GenCalled("addStyles", "returned", genOps.added, genOps.styled \o list)
  /\ componentStyles' = AddStyles(componentStyles, list)
  /\ UNCHANGED <<options, files, cache, loaded, persisted, viteServer,
                 classes, cssOut, fragments, pass, task, prev, cur,
                 passes, edits, compiler>>
  /\ UNCHANGED <<sideVars, cacheLog, watcher, unlinked, restarts>>

\* generator.clear()
CallClear ==
  /\ GenCalled("clear", "returned", {}, <<>>)
  /\ classes' = <<>>
  /\ componentStyles' = <<>>
  /\ UNCHANGED <<options, files, cache, loaded, persisted, viteServer,
                 cssOut, fragments, pass, task, prev, cur,
                 passes, edits, compiler>>
  /\ UNCHANGED <<sideVars, cacheLog, watcher, unlinked, restarts>>

\* await generator.generate(outputPath)
CallGenerate(outcome) ==
  /\ GenCalled("generate", outcome, genOps.added, genOps.styled)
  /\ Generate(outcome)
  /\ UNCHANGED <<options, files, cache, loaded, persisted, viteServer, classes,
                 componentStyles, fragments, pass, task, prev, cur,
                 passes, edits>>
  /\ UNCHANGED <<sideVars, cacheLog, watcher, unlinked, restarts>>

CssNext ==
  \/ \E list \in ClassLists : CallAddClasses(list)
  \/ \E list \in StyleLists : CallAddStyles(list)
  \/ CallClear
  \/ \E outcome \in GenerateOutcomes : CallGenerate(outcome)

(***************************************************************************)
(* The CacheManager called directly                                        *)
(***************************************************************************)
\* the hashes a caller passes to set
CacheHashes == {Hash("c1"), Hash("c2")}

CacheCalled(op, p, h) ==
  /\ Len(cacheLog) < MaxOps
  /\ cacheLog' = Append(cacheLog, [op |-> op, path |-> p, hash |-> h])
  /\ UNCHANGED <<options, files, viteServer, classes, componentStyles,
                 cssOut, fragments, pass, task, prev, cur, passes, edits,
                 compiler>>
  /\ UNCHANGED <<sideVars, genOps, watcher, unlinked, restarts>>

\* cacheManager.set(componentPath, hash)
CacheSet(p, h) ==
  /\ CacheCalled("set", p, h)
  /\ cache' = SetKey(cache, p, h)
  /\ UNCHANGED <<persisted, loaded>>

\* cacheManager.delete(componentPath)
CacheDelete(p) ==
  /\ CacheCalled("delete", p, NoHash)
  /\ cache' = DeleteKey(cache, p)
  /\ UNCHANGED <<persisted, loaded>>

\* cacheManager.clear(): FlatCache.clear empties the entries; whether it also
\* rewrites the store is the library's choice
CacheClear ==
  /\ CacheCalled("clear", "", NoHash)
  /\ cache' = [p \in Paths |-> NoHash]
  /\ persisted' \in {persisted, [p \in Paths |-> NoHash]}
  /\ UNCHANGED loaded

\* await cacheManager.load()
CacheLoadCall ==
  /\ CacheCalled("load", "", NoHash)
  /\ CacheLoad
  /\ UNCHANGED persisted

\* await cacheManager.save()
CacheSaveCall ==
  /\ CacheCalled("save", "", NoHash)
  /\ persisted' = cache
  /\ UNCHANGED <<cache, loaded>>

\* the store file a process finds: missing, not parsable, or written by an
\* earlier run
StoreStates ==
  {[p \in Paths |-> NoHash], CorruptStore,
   [p \in Paths |-> IF p = "Header.astro" THEN Hash("c1") ELSE NoHash]}

\* load and save among set and delete calls on one path
StoreNext ==
  \/ CacheLoadCall
  \/ CacheSaveCall
  \/ \E h \in CacheHashes : CacheSet("Header.astro", h)
  \/ CacheDelete("Header.astro")

CacheNext ==
  \/ \E p \in Paths, h \in CacheHashes : CacheSet(p, h)
  \/ \E p \in Paths : CacheDelete(p)
  \/ CacheClear

BuildNext ==
  \/ BuildStart
  \/ ConfigureServer
  \/ \E t \in Tasks : CheckCache(t)
  \/ \E t \in Tasks : RenderPrimary(t)
  \/ \E t \in Tasks : RenderFallback(t)
  \/ \E t \in Tasks, ok \in BOOLEAN : WriteFragment(t, ok)
  \/ \E t \in Tasks : UpdateCache(t)
  \/ \E outcome \in GenerateOutcomes : GenerateCSS(outcome)
  \/ SaveCache
  \/ \E p \in Paths, c \in Contents \cup {Absent} : EditFile(p, c)

(***************************************************************************)
(* Specifications                                                          *)
(***************************************************************************)
\* the loader before any call, whatever its configuration
LoaderQuiet ==
  /\ config = [cssModules |-> FALSE, cacheHTML |-> TRUE, enableRetry |-> TRUE,
               maxRetries |-> MaxRetriesBound, retryDelay |-> DefaultRetryDelay]
  /\ poAvailable = TRUE
  /\ htmlCache = [n \in Names |-> NoEntry]
  /\ cssCache = {}
  /\ manifest = "null"
  /\ manifestLoaded = FALSE
  /\ baseCssLoaded = FALSE
  /\ legacyCssLoaded = FALSE
  /\ stats = ZeroStats
  /\ head = [h \in Hrefs |-> 0]
  /\ calls = [c \in Calls |-> IdleCall]
  /\ started = 0
  /\ manifestFailed = FALSE
  /\ PageInit

\* the plugin's objects after construction, no source file, no pass
PluginIdle ==
  /\ files = [p \in Paths |-> Absent]
  /\ cache = [p \in Paths |-> NoHash]
  /\ loaded = FALSE
  /\ viteServer = FALSE
  /\ classes = <<>>
  /\ componentStyles = <<>>
  /\ cssOut = NoCss
  /\ fragments = [n \in OutNames |-> NoFile]
  /\ pass = IdlePass
  /\ task = [t \in Tasks |-> IdleTask]
  /\ prev = [p \in Paths |-> Summary(NoRecord)]
  /\ cur = [p \in Paths |-> NoRecord]
  /\ passes = 0
  /\ edits = 0
  /\ AuxInit

\* the plugin before configResolved has any effect on the loader's page
BuildQuiet ==
  /\ options = [renderer |-> "parser", command |-> "build",
                generateTailwindCSS |-> TRUE]
  /\ persisted = [p \in Paths |-> NoHash]
  /\ PluginIdle

\* a CSSGenerator constructed with either value of generateTailwind
InitCss ==
  /\ options \in [renderer : {"parser"}, command : {"build"},
                  generateTailwindCSS : BOOLEAN]
  /\ persisted = [p \in Paths |-> NoHash]
  /\ PluginIdle
  /\ LoaderQuiet

InitLoader == LoaderInit /\ BuildQuiet

\* the page's loader: the legacy stylesheet mode, plain fetch
InitPage ==
  /\ InitLoader
  /\ ~config.cssModules
  /\ ~config.enableRetry
  /\ poAvailable

InitBuild == BuildInit /\ LoaderQuiet

\* a loader with retry on, any number of attempts up to MaxAttempts and one
\* of two base delays
InitRetry ==
  /\ config \in [cssModules : {FALSE}, cacheHTML : {TRUE}, enableRetry : {TRUE},
                 maxRetries : 1..MaxAttempts,
                 retryDelay : {DefaultRetryDelay, DefaultRetryDelay \div 4}]
  /\ poAvailable = TRUE
  /\ htmlCache = [n \in Names |-> NoEntry]
  /\ cssCache = {}
  /\ manifest = "null"
  /\ manifestLoaded = FALSE
  /\ baseCssLoaded = FALSE
  /\ legacyCssLoaded = FALSE
  /\ stats = ZeroStats
  /\ head = [h \in Hrefs |-> 0]
  /\ calls = [c \in Calls |-> IdleCall]
  /\ started = 0
  /\ manifestFailed = FALSE
  /\ PageInit
  /\ BuildQuiet

\* the client runtime loader, one load() at a time
SpecLoader == InitLoader /\ [][LoaderNext]_vars

\* the client runtime loader, load() calls overlapping
SpecConcurrent == InitLoader /\ [][ConcurrentNext]_vars

\* the client runtime loader with inject, the viewport observers and the
\* clearing calls, load() calls overlapping
SpecPage == InitPage /\ [][PageNext]_vars

\* the client runtime loader with all its methods
SpecSession == InitPage /\ [][SessionNext]_vars

\* a page that has already called observeAndLoad('A', '#slot'): the observer
\* is active and registered; `started` counts the calls made from here on
InitObserving ==
  /\ config \in [cssModules : {FALSE}, cacheHTML : BOOLEAN, enableRetry : {FALSE},
                 maxRetries : {MaxRetriesBound}, retryDelay : {DefaultRetryDelay}]
  /\ poAvailable = TRUE
  /\ htmlCache = [n \in Names |-> NoEntry]
  /\ cssCache = {}
  /\ manifest = "null"
  /\ manifestLoaded = FALSE
  /\ baseCssLoaded = FALSE
  /\ legacyCssLoaded = FALSE
  /\ stats = ZeroStats
  /\ head = [h \in Hrefs |-> 0]
  /\ calls = [c \in Calls |-> IdleCall]
  /\ started = 0
  /\ manifestFailed = FALSE
  /\ dom = [s \in Selectors |-> IF s = "#slot" THEN "" ELSE NoElement]
  /\ observers = [n \in Names |-> IF n = "A" THEN 1 ELSE NoObserver]
  /\ io = [o \in ObsIds |-> IF o = 1 THEN [IdleObserver EXCEPT !.state = "active"]
                                      ELSE IdleObserver]
  /\ callback = NoCallback
  /\ wrap = [c \in Calls |-> NoWrap]
  /\ BuildQuiet

\* a loader in legacy stylesheet mode with retry on
InitBatch ==
  /\ InitLoader
  /\ ~config.cssModules
  /\ config.enableRetry
  /\ config.maxRetries = MaxRetriesBound

\* the client runtime loader, preloads overlapping
SpecBatch == InitBatch /\ [][BatchNext]_vars

\* the client runtime loader on a page with a viewport observer registered
SpecObservers == InitObserving /\ [][SessionNext]_vars

\* the stylesheet generator, its methods called in any order
SpecCss == InitCss /\ [][CssNext]_vars

\* the content cache after construction, its methods called in any order
InitCache ==
  /\ options = [renderer |-> "parser", command |-> "build",
                generateTailwindCSS |-> TRUE]
  /\ persisted = [p \in Paths |-> NoHash]
  /\ PluginIdle
  /\ LoaderQuiet

SpecCache == InitCache /\ [][CacheNext]_vars

\* a process that finds a store file in any state and calls load, save, set
\* and delete in any order
InitStore ==
  /\ options = [renderer |-> "parser", command |-> "build",
                generateTailwindCSS |-> TRUE]
  /\ persisted \in StoreStates
  /\ PluginIdle
  /\ LoaderQuiet

SpecStore == InitStore /\ [][StoreNext]_vars

\* the dev server across restarts: the first pass, removals, the 'unlink'
\* callback
InitWatch == InitBuild /\ options.command = "serve"

SpecWatch == InitWatch /\ [][WatchNext]_vars

\* the dev server started on a directory holding one component
InitHandlers ==
  /\ InitWatch
  /\ files = [p \in Paths |-> IF p = "Header.astro" THEN "c1" ELSE Absent]

\* the dev server's watcher callbacks
SpecHandlers == InitHandlers /\ [][HandlersNext]_vars

\* cleanHTML applied once and twice to every input
SpecClean == InitCache /\ [][CleanNext]_vars

\* the two renderers, render called directly
SpecParser == InitCache /\ [][ParserNext]_vars

\* the client runtime loader's fetch loop
SpecRetry == InitRetry /\ [][RetryNext]_vars

\* the build-time pipeline
SpecBuild == InitBuild /\ [][BuildNext]_vars

Init == LoaderInit /\ BuildInit

Next == LoaderNext \/ BuildNext

Spec == Init /\ [][Next]_vars

(***************************************************************************)
(* The loader's retry, cache and stylesheet claims                         *)
(***************************************************************************)
\* a load() that went past its stylesheet stage
PastCssPcs == {"fetchHtml", "fetchWait", "backoff", "gotResponse", "done"}

\* the fragment fetch of activation c was answered by an OK response
FetchSucceeded(c) ==
  /\ calls[c].dMisses = 1
  /\ calls[c].pc \in {"gotResponse", "done"}
  /\ calls[c].value # NoEntry

\* C1: with retry enabled and maxRetries >= 2, once a fragment fetch has been
\* answered 404 the load has failed: it is rejected at once, with no backoff
\* wait and no further fetch.
C1_NotFoundFailsAtOnce ==
  \A c \in Calls :
    (config.enableRetry /\ config.maxRetries >= 2 /\ calls[c].n404 > 0)
      => /\ calls[c].pc = "done"
         /\ calls[c].result = "rejected"
         /\ calls[c].n404 = 1

\* C2: on a cache miss with retry enabled, k < maxRetries failures (none a 404)
\* followed by an OK response: the load that has settled is resolved with the
\* body of that response, has cached it when cacheHTML is on, and has counted
\* one load and no error.
C2_SuccessWithinRetries ==
  \A c \in Calls :
    (/\ config.enableRetry
     /\ FetchSucceeded(c)
     /\ calls[c].n404 = 0
     /\ calls[c].fails < config.maxRetries
     /\ calls[c].pc = "done")
      => /\ calls[c].result = "resolved"
         /\ calls[c].value = Body(calls[c].name)
         /\ config.cacheHTML => calls[c].stored = Body(calls[c].name)
         /\ calls[c].dLoads = 1
         /\ calls[c].dErrors = 0

\* C3: on a cache miss with retry enabled, a load none of whose fetches
\* succeeded (and none was answered 404) is rejected after at least one and
\* exactly maxRetries fetch calls, with onError called once, one error
\* counted, no load counted and nothing cached.
C3_ExhaustedRetries ==
  \A c \in Calls :
    (/\ config.enableRetry
     /\ calls[c].dMisses = 1
     /\ calls[c].pc = "done"
     /\ calls[c].value = NoEntry
     /\ calls[c].n404 = 0)
      => /\ calls[c].result = "rejected"
         /\ calls[c].fetches >= 1
         /\ calls[c].fetches = config.maxRetries
         /\ calls[c].onErr = 1
         /\ calls[c].dErrors = 1
         /\ calls[c].dLoads = 0
         /\ calls[c].stored = NoEntry

\* C4: a load(name) called with cacheHTML on and an entry for name in the HTML
\* cache settles in that very step, resolved with the cached string, having
\* issued no fetch and appended no stylesheet link; cacheHits goes up by one
\* and cacheMisses stays.
C4_CacheHitIsLocal ==
  [][\A c \in Calls :
       (/\ stats'.cacheHits + stats'.cacheMisses      \* a load() is called
             = stats.cacheHits + stats.cacheMisses + 1
        /\ Settled(c)                                  \* and runs as activation c
        /\ \A d \in Calls : d < c => ~Settled(d)
        /\ config.cacheHTML
        /\ htmlCache[calls'[c].name] # NoEntry)
         => /\ calls'[c].pc = "done"
            /\ calls'[c].result = "resolved"
            /\ calls'[c].value = htmlCache[calls'[c].name]
            /\ calls'[c].fetches = 0
            /\ head' = head
            /\ htmlCache' = htmlCache
            /\ stats'.cacheHits = stats.cacheHits + 1
            /\ stats'.cacheMisses = stats.cacheMisses
            /\ stats'.errors = stats.errors]_vars

\* a load served from the cache has settled
C4_Witness ==
  \E c \in Calls :
    /\ calls[c].pc = "done"
    /\ calls[c].hadEntry
    /\ calls[c].dHits = 1
    /\ calls[c].value = Body(calls[c].name)

\* C8: in per-component CSS mode, once a manifest fetch has failed, every
\* cache-miss load (the one that saw the failure included) waits for neither
\* the base nor a component stylesheet, has had the legacy stylesheet ensured
\* by the time it fetches the fragment, and resolves when the fragment fetch
\* succeeds.
C8_ManifestFailureDegradesToLegacy ==
  \A c \in Calls :
    (manifestFailed /\ calls[c].dMisses = 1)
      => /\ calls[c].pc \notin {"baseWait", "compWait"}
         /\ calls[c].pc \in PastCssPcs => calls[c].legacyEnsured
         /\ (calls[c].sawManifestFail /\ FetchSucceeded(c) /\ calls[c].pc = "done")
              => calls[c].result = "resolved"

\* C9: whatever the interleaving of load() calls, the legacy stylesheet link,
\* the base stylesheet link and each component stylesheet link are appended
\* to the document at most once.
C9_StylesheetsAppendedOnce ==
  \A h \in Hrefs : head[h] <= 1

\* C10: a load whose fragment fetch succeeded resolves with the HTML whether
\* or not PerformanceObserver is available or observe() throws: onError is not
\* called and no error is counted.
C10_ObserverNeverFailsLoad ==
  \A c \in Calls :
    (FetchSucceeded(c) /\ calls[c].pc = "done")
      => /\ calls[c].result = "resolved"
         /\ calls[c].value = Body(calls[c].name)
         /\ calls[c].onErr = 0
         /\ calls[c].dErrors = 0

(***************************************************************************)
(* The pipeline's cache, failure and fallback claims                       *)
(***************************************************************************)
\* the components still to come in the running pass
Queued == {pass.queue[i] : i \in 1..Len(pass.queue)}

C6_FailureIsContained ==
  /\ \A p \in Paths :
       cur[p].kind \in Failures
         => /\ ~cur[p].wrote
            /\ cur[p].fragKept
            /\ cur[p].entryKept
            /\ ~cur[p].entryIsHash
  /\ \A p \in pass.found :
       \/ cur[p].kind # "none"
       \/ /\ pass.pc = "proc"
          /\ \/ p \in Queued
             \/ \E t \in Tasks : task[t].pc # "idle" /\ task[t].path = p
  /\ \A p \in Paths :
       (/\ prev[p].kind = "failed"
        /\ cur[p].kind \notin {"none", "checkFailed"}
        /\ cur[p].hash = prev[p].hash)
         => cur[p].renders >= 1

\* the first component failed, the second was written in the same pass, and
\* the next pass rendered the failed one again
C6_Witness ==
  /\ prev["Header.astro"].kind = "failed"
  /\ prev["sub/Footer.astro"].kind = "kept"
  /\ fragments["Footer"] # NoFile
  /\ cur["Header.astro"].hash = prev["Header.astro"].hash
  /\ cur["Header.astro"].renders >= 1

\* C7: configured for the container renderer, processComponent calls it first
\* and calls the parser renderer afterwards exactly when the container
\* renderer returned null; configured for the parser renderer, the container
\* renderer is never called; a renderer that throws ends the component
\* without a write.
C7_FallbackExactlyOnNull ==
  /\ \A t \in Tasks :
       LET tk == task[t] IN
         Len(tk.log) >= 1 =>
           /\ options.renderer = "container" =>
                /\ tk.log[1].by = "container"
                /\ (tk.pc = "fallback" \/ Len(tk.log) = 2) <=> (tk.log[1].kind = "null")
                /\ Len(tk.log) = 2 => tk.log[2].by = "parser"
           /\ options.renderer = "parser" =>
                /\ Len(tk.log) = 1
                /\ tk.log[1].by = "parser"
  /\ \A p \in Paths :
       cur[p].kind = "renderThrew" => ~cur[p].wrote /\ cur[p].entryKept

(***************************************************************************)
(* The loader's inject, viewport and statistics claims                     *)
(***************************************************************************)
\* C11 (as the spec states it): an inject whose selector matches nothing has
\* called onError once and has modified no element of the document, the head
\* included.
C11_MissingTargetTouchesNoElement ==
  \A c \in Calls :
    (wrap[c].message # "" /\ wrap[c].message = wrap[c].selector)
      => /\ wrap[c].onErr = 1
         /\ ~wrap[c].wrote
         /\ ~wrap[c].linked

\* C11 (amended): when the load() of an inject has resolved, inject assigns
\* the loaded HTML to the element the selector matches and resolves; when the
\* selector matches nothing it rejects with an error naming the selector,
\* calls onError once and, in that step, changes no element (the load before
\* it may have appended a stylesheet link to the head).
C11_InjectWritesOrReports ==
  [][\A c \in Calls :
       (/\ InjectPending(c)
        /\ wrap'[c].outcome # "pending"
        /\ calls[c].result = "resolved")
         => IF dom[wrap[c].selector] # NoElement
              THEN /\ dom' = [dom EXCEPT ![wrap[c].selector] = calls[c].value]
                   /\ wrap'[c].outcome = "resolved"
                   /\ wrap'[c].wrote
                   /\ wrap'[c].onErr = 0
              ELSE /\ wrap'[c].outcome \in {"rejected", "caught"}
                   /\ wrap[c].obs = NoObserver => wrap'[c].outcome = "rejected"
                   /\ wrap'[c].message = wrap[c].selector
                   /\ wrap'[c].onErr = 1
                   /\ ~wrap'[c].wrote
                   /\ dom' = dom
                   /\ head' = head]_vars

\* one inject has written its fragment into "#slot", another has been
\* rejected for "#none"
C11_Witness ==
  \E c, d \in Calls :
    /\ wrap[c].outcome = "rejected"
    /\ wrap[c].message = "#none"
    /\ wrap[c].onErr = 1
    /\ wrap[d].outcome = "resolved"
    /\ dom["#slot"] = Body(calls[d].name)

\* C12: an observeAndLoad registration calls inject at most once: not before
\* an intersection, once at the first intersection, after which its observer
\* is disconnected.
C12_ObserverFiresOnce ==
  \A o \in ObsIds :
    /\ io[o].injects <= 1
    /\ io[o].state \in {"unused", "active"} => io[o].injects = 0
    /\ io[o].injects >= 1 => io[o].state = "disconnected"

\* C13: an inject started by a viewport callback that fails, because its load
\* failed or because its target is gone, is caught by the callback's .catch
\* and has been reported to onError exactly once.
C13_ViewportFailureReportedOnce ==
  \A c \in Calls :
    (wrap[c].obs # NoObserver /\ wrap[c].outcome \notin {"none", "pending", "resolved"})
      => /\ wrap[c].outcome = "caught"
         /\ calls[c].onErr + wrap[c].onErr = 1
         /\ wrap[c].message = "load" => calls[c].onErr = 1
         /\ wrap[c].message # "load" => wrap[c].message = wrap[c].selector

\* two viewport-triggered injects have failed, one by its load, one by its
\* target
C13_Witness ==
  \E c, d \in Calls :
    /\ wrap[c].obs # NoObserver
    /\ wrap[c].outcome = "caught"
    /\ wrap[c].message = "load"
    /\ wrap[d].obs # NoObserver
    /\ wrap[d].outcome = "caught"
    /\ wrap[d].message = wrap[d].selector

\* C14: a step either lowers none of totalLoads, cacheHits, cacheMisses,
\* errors and totalBytes, or it is a reset: all of them are zero after it, and
\* the HTML cache, the stylesheet caches and the observer registry are empty.
C14_StatsCumulativeUntilReset ==
  [][\/ /\ stats'.totalLoads >= stats.totalLoads
        /\ stats'.cacheHits >= stats.cacheHits
        /\ stats'.cacheMisses >= stats.cacheMisses
        /\ stats'.errors >= stats.errors
        /\ stats'.totalBytes >= stats.totalBytes
     \/ /\ stats' = ZeroStats
        /\ \A n \in Names : htmlCache'[n] = NoEntry
        /\ cssCache' = {}
        /\ ~baseCssLoaded'
        /\ ~legacyCssLoaded'
        /\ ~manifestLoaded'
        /\ manifest' = "null"
        /\ \A n \in Names : observers'[n] = NoObserver]_vars

\* a load was counted and cached, and a reset has since zeroed the statistics
C14_Witness ==
  /\ stats = ZeroStats
  /\ HtmlCacheEmpty
  /\ \E c \in Calls :
       /\ calls[c].pc = "done"
       /\ calls[c].dLoads = 1
       /\ calls[c].stored # NoEntry

(***************************************************************************)
(* The stylesheet generator                                                *)
(***************************************************************************)
\* the step is a call of generator.generate by the direct caller
GenerateStep == genOps'.n = genOps.n + 1 /\ genOps'.last = "generate"

NothingAccumulated == classes = <<>> /\ componentStyles = <<>>

\* C16: generate called while the class set and the style list are both
\* empty writes no file and invokes no compiler, and the accumulators are
\* still empty afterwards
C16_EmptyGenerateDoesNothing ==
  [][GenerateStep /\ NothingAccumulated
       => /\ cssOut' = cssOut
          /\ compiler' = compiler
          /\ classes' = <<>>
          /\ componentStyles' = <<>>]_vars

\* generate was called on an emptied generator while a stylesheet written
\* earlier is on disk
C16_Witness ==
  /\ genOps.last = "generate"
  /\ NothingAccumulated
  /\ genOps.added = {} /\ genOps.styled = <<>>
  /\ cssOut.kind = "css"

\* C17: with utility CSS generation disabled generate never invokes the
\* compiler; with at least one style block it writes exactly the style
\* blocks, in order; with class tokens only it writes nothing
C17_DisabledWritesStylesOnly ==
  [][GenerateStep /\ ~options.generateTailwindCSS
       => /\ compiler' = compiler
          /\ compiler = NoCompiler
          /\ (componentStyles # <<>> /\ genOps'.result = "returned")
               => cssOut' = [kind |-> "css", via |-> "direct", utilities |-> {},
                             styles |-> genOps.styled]
          /\ componentStyles = <<>> => cssOut' = cssOut]_vars

\* disabled, class tokens and style blocks accumulated, the style blocks
\* written without the compiler
C17_Witness ==
  /\ ~options.generateTailwindCSS
  /\ genOps.last = "generate" /\ genOps.result = "returned"
  /\ genOps.added # {}
  /\ Len(genOps.styled) = 2
  /\ cssOut.via = "direct" /\ cssOut.styles = genOps.styled
  /\ compiler.calls = 0

\* C18: with utility CSS generation enabled and something accumulated,
\* generate invokes the compiler once with the accumulated class tokens and
\* no other, and when it returns the stylesheet holds the utility rules of
\* those tokens followed by every style block in the order they were added
C18_EnabledCompilesAccumulated ==
  [][GenerateStep /\ options.generateTailwindCSS /\ ~NothingAccumulated
               /\ genOps'.result # "importThrew"
       => /\ compiler'.calls = compiler.calls + 1
          /\ compiler'.inputs = compiler.inputs \cup {classes}
          /\ Range(classes) = genOps.added
          /\ genOps'.result = "returned"
               => cssOut' = [kind |-> "css", via |-> "postcss",
                             utilities |-> UtilityRules(classes),
                             styles |-> genOps.styled]]_vars

\* enabled, two class tokens and two style blocks accumulated and compiled
C18_Witness ==
  /\ options.generateTailwindCSS
  /\ genOps.last = "generate" /\ genOps.result = "returned"
  /\ genOps.added = {"k1", "k2"}
  /\ genOps.styled = <<"s2", "s1">>
  /\ cssOut.via = "postcss" /\ cssOut.styles = <<"s2", "s1">>
  /\ cssOut.utilities = UtilityRules(classes)
  /\ compiler.calls = 1

\* C19: two accumulations of the same set of class tokens, in whatever order
\* and with whatever repetition, hand the compiler the same input
C19_SameTokensSameCompilerInput ==
  \A a, b \in compiler.inputs : Range(a) = Range(b) => a = b

(***************************************************************************)
(* The content cache                                                       *)
(***************************************************************************)
NoOp == [op |-> "none", path |-> "", hash |-> NoHash]

RECURSIVE LastAffecting(_, _)
\* the most recent operation of the log that affects path p
LastAffecting(log, p) ==
  IF log = <<>> THEN NoOp
  ELSE LET o == log[Len(log)]
       IN IF o.op = "clear" \/ o.path = p THEN o
          ELSE LastAffecting(SubSeq(log, 1, Len(log) - 1), p)

\* C20: after any sequence of set, delete and clear, isCached(path, hash) is
\* true exactly when the most recent operation affecting path was
\* set(path, hash): a set overwrites, the paths are independent
C20_IsCachedIffLastSet ==
  \A p \in Paths, h \in CacheHashes :
    IsCached(p, h) <=> LastAffecting(cacheLog, p) = [op |-> "set", path |-> p, hash |-> h]

\* an entry overwritten after a delete of the other, absent path, with the
\* other path set afterwards and deleted again
C20_Witness ==
  /\ Len(cacheLog) = 5
  /\ cacheLog[1] = [op |-> "set", path |-> "Header.astro", hash |-> Hash("c1")]
  /\ cacheLog[2].op = "delete" /\ cacheLog[2].path = "sub/Footer.astro"
  /\ cacheLog[3] = [op |-> "set", path |-> "Header.astro", hash |-> Hash("c2")]
  /\ cacheLog[4].op = "set" /\ cacheLog[4].path = "sub/Footer.astro"
  /\ cacheLog[5].op = "delete" /\ cacheLog[5].path = "sub/Footer.astro"
  /\ IsCached("Header.astro", Hash("c2"))
  /\ ~IsCached("Header.astro", Hash("c1"))
  /\ \A h \in CacheHashes : ~IsCached("sub/Footer.astro", h)

(***************************************************************************)
(* The watcher's removal events                                            *)
(***************************************************************************)
\* C15: once the removal event of a path has been handled, and while the
\* source stays removed, isCached on that path is false for every hash,
\* also after a later full pass
C15_RemovedPathStaysUncached ==
  \A p \in unlinked :
    files[p] = Absent => \A c \in Contents : ~IsCached(p, Hash(c))

(***************************************************************************)
(* Loading the content cache                                               *)
(***************************************************************************)
\* the step is a call of cacheManager.load by the direct caller
LoadStep ==
  /\ Len(cacheLog') = Len(cacheLog) + 1
  /\ cacheLog'[Len(cacheLog')].op = "load"

\* C21: load() reads the store at most once per process: a load() after the
\* first leaves the entries in memory, unsaved changes included, as they
\* are; a first load() on a missing or unparsable store leaves the cache
\* without an entry it did not already hold
C21_LoadReadsOnce ==
  [][LoadStep
       => /\ loaded'
          /\ loaded => cache' = cache
          /\ (~loaded /\ ReadStore(persisted) = [p \in Paths |-> NoHash])
               => cache' = cache
          /\ persisted' = persisted]_vars

\* the store does not parse: the first load() left the cache empty, a set
\* followed, and the second load() kept the unsaved entry
C21_Witness ==
  /\ persisted = CorruptStore
  /\ Len(cacheLog) = 3
  /\ cacheLog[1].op = "load"
  /\ cacheLog[2] = [op |-> "set", path |-> "Header.astro", hash |-> Hash("c2")]
  /\ cacheLog[3].op = "load"
  /\ loaded
  /\ IsCached("Header.astro", Hash("c2"))
  /\ cache["sub/Footer.astro"] = NoHash

RECURSIVE Placeholders(_, _)
\* the places of a node list where {key} stands: expressions and attribute
\* values
Placeholders(nodes, key) ==
  IF nodes = <<>> THEN 0
  ELSE LET node == Head(nodes)
       IN (IF node.type = "expression" /\ node.name = key THEN 1 ELSE 0)
          + (IF \E i \in DOMAIN node.attributes :
                   node.attributes[i].value = <<"{", key, "}">> THEN 1 ELSE 0)
          + Placeholders(node.children, key)
          + Placeholders(Tail(nodes), key)

\* the occurrences of an atom in a string
Occurrences(str, atom) == Cardinality({i \in DOMAIN str : str[i] = atom})

\* C23: every {name} placeholder of the template is replaced by the string
\* literal the frontmatter assigns to name: with year = "2024", each {year}
\* becomes 2024, and <p>{year}</p> renders to <p>2024</p>
C23_PlaceholdersSubstituted ==
  (pure.fn = "render" /\ pure.in.vars # <<>>)
    => Occurrences(pure.out, "2024") = Placeholders(pure.in.children, "year")

\* the self-closing form of a childless element
SelfClosing(node) ==
  LET attrs == Join([i \in DOMAIN node.attributes |-> AttrToHTML(node.attributes[i])], " ")
  IN IF attrs # <<>> THEN <<"<", node.name, " ">> \o attrs \o <<" />">>
     ELSE <<"<", node.name, " />">>

\* C24: a component of one node: a component reference renders as a comment
\* naming it, with one warning; a childless img is written self-closing; a
\* childless p gets a closing tag
C24_PlaceholdersAndVoidElements ==
  (pure.fn = "render" /\ Len(pure.in.children) = 1 /\ pure.in.vars = <<>>)
    => LET node == pure.in.children[1]
       IN /\ node.type = "component"
               => pure.out = <<"<!-- Component: ", node.name, " -->">> /\ pure.n = 1
          /\ (node.type = "element" /\ node.children = <<>> /\ node.name = "img")
               => pure.out = SelfClosing(node)
          /\ (node.type = "element" /\ node.children = <<>> /\ node.name = "p")
               => pure.out = OpenTag(node) \o <<"</", "p", ">">>

C30_BackoffIsLinear ==
  \A c \in Calls :
    /\ \A k \in DOMAIN calls[c].delays : calls[c].delays[k] = config.retryDelay * k
    /\ Len(calls[c].delays) <= config.maxRetries - 1
    /\ calls[c].pc = "backoff" => Len(calls[c].delays) = calls[c].attempt
    /\ calls[c].pc \in {"fetchWait", "gotResponse"}
         => Len(calls[c].delays) = calls[c].attempt - 1

\* three attempts failed: two waits, none after the last
C30_Witness ==
  \E c \in Calls :
    /\ config.retryDelay # DefaultRetryDelay
    /\ calls[c].delays = <<config.retryDelay, 2 * config.retryDelay>>
    /\ calls[c].fetches = 3
    /\ calls[c].result = "rejected"

(***************************************************************************)
(* The end of a full pass                                                  *)
(***************************************************************************)
\* processAll returns: at once when nothing was discovered, or from one of
\* its later steps
PassEnds ==
  \/ passes' = passes + 1 /\ pass'.pc = "idle"
  \/ pass.pc # "idle" /\ pass'.pc = "idle" /\ restarts' = restarts

\* C27: a full pass ends by the save of the cache that follows its one call
\* of generate, whatever happened to the components and to the stylesheet,
\* also when no component was discovered
C27_PassEndsWithGenerateThenSave ==
  [][PassEnds => pass.pc = "save" /\ persisted' = cache]_vars

(***************************************************************************)
(* The cache entry and the fragment it stands for                          *)
(***************************************************************************)
\* C26: whenever the cache holds a hash for a path, the fragment file of the
\* path holds a rendering of content with that hash, however edits of the
\* source interleave with processComponent
C26_EntryMatchesFragment ==
  \A p \in Paths :
    cache[p] # NoHash =>
      /\ fragments[Basename(p)].kind = "fragment"
      /\ Hash(fragments[Basename(p)].src) = cache[p]

(***************************************************************************)
(* The watcher's callbacks                                                 *)
(***************************************************************************)
\* the 'change' and 'add' callbacks that have begun and not returned
InProgress == {t \in Handlers : task[t].pc # "idle"}

\* C28: at most one 'change' or 'add' callback (processComponent followed by
\* generateCSS) is in progress at any time
C28_OneHandlerAtATime == Cardinality(InProgress) <= 1

\* a callback of the watcher returns
HandlerReturns ==
  \/ unlinked' # unlinked
  \/ \E t \in Handlers : task[t].pc = "css" /\ task'[t].pc = "idle"

\* C29: when a callback of the watcher has handled its event, the persisted
\* store equals the cache in memory
C29_StoreFollowsCache == [][HandlerReturns => persisted' = cache']_vars

(***************************************************************************)
(* The loader's history and statistics                                     *)
(***************************************************************************)
\* every load() activation has settled
NoLoadInProgress == \A c \in Calls : calls[c].pc \in {"idle", "done"}

\* C31: getDetailedHistory() has one entry for each load completed since the
\* last reset, hits and misses and repeated loads of a name alike, the newest
\* first
C31_HistoryHasEveryLoad ==
  (NoLoadInProgress /\ poAvailable) =>
    /\ Len(GetDetailedHistory) = stats.totalLoads
    /\ \A i, j \in DOMAIN GetDetailedHistory :
         i < j => GetDetailedHistory[i].timestamp >= GetDetailedHistory[j].timestamp

\* C36: whenever no load() is in progress, every load() has been counted as
\* one hit or one miss and as one success or one error:
\* cacheHits + cacheMisses = totalLoads + errors
C36_StatsBalance ==
  NoLoadInProgress =>
    stats.cacheHits + stats.cacheMisses = stats.totalLoads + stats.errors

(***************************************************************************)
(* reset() and the loads in flight                                         *)
(***************************************************************************)
\* the statistics are zero although a load() counted earlier is in flight:
\* reset() has returned since, and no load was started after it
ResetWithLoadInFlight ==
  /\ stats = ZeroStats
  /\ HtmlCacheEmpty
  /\ ~NoLoadInProgress

\* C37: after reset(), while no new load, inject, preload or observeAndLoad
\* call is made and no viewport callback runs, the statistics stay zero and
\* the HTML cache stays empty, also when a load started before the reset
\* completes
C37_ResetIsFinal ==
  [][(ResetWithLoadInFlight /\ started' = started /\ callback = NoCallback)
       => (stats' = ZeroStats /\ \A n \in Names : htmlCache'[n] = NoEntry)]_vars

(***************************************************************************)
(* disconnectAll() and the observers of observeAndLoad                     *)
(***************************************************************************)
\* disconnectAll(), or reset(), runs on a registry that holds an observer
RegistryDisconnected ==
  /\ started' = started + 1
  /\ ~RegistryEmpty
  /\ \A n \in Names : observers'[n] = NoObserver

\* C38: when disconnectAll() or reset() returns, no observer created by an
\* earlier observeAndLoad call is still observing
C38_NoObserverLeftActive ==
  [][RegistryDisconnected => \A o \in ObsIds : io'[o].state # "active"]_vars

(***************************************************************************)
(* What the HTML cache holds                                               *)
(***************************************************************************)
\* C40: an entry of the HTML cache is the body of a 2xx response for the
\* name's fragment; a call stores only after a fetch of its own returned 2xx,
\* a call whose fetches all failed stores nothing, and nothing is stored with
\* cacheHTML off
C40_CacheHoldsOkBodies ==
  /\ \A n \in Names :
       htmlCache[n] # NoEntry => (config.cacheHTML /\ htmlCache[n] = Body(n))
  /\ \A c \in Calls :
       /\ calls[c].stored # NoEntry
            => /\ config.cacheHTML
               /\ calls[c].stored = Body(calls[c].name)
               /\ calls[c].fails + calls[c].n404 = calls[c].fetches - 1
       /\ calls[c].fails + calls[c].n404 = calls[c].fetches
            => calls[c].stored = NoEntry

\* a load stored the fragment it received after a failed attempt
C40_Witness ==
  \E c \in Calls :
    /\ calls[c].fails = 1
    /\ calls[c].fetches = 2
    /\ calls[c].stored = Body(calls[c].name)
    /\ htmlCache[calls[c].name] = Body(calls[c].name)

(***************************************************************************)
(* Overlapping load() calls                                                *)
(***************************************************************************)
\* the fetches a call may issue for its fragment
MaxFetches == IF config.enableRetry THEN Retries ELSE 1

\* the fetches of a call that failed
Failed(cl) == cl.fails + cl.n404

\* C32: under any overlap of load() calls, each call's attempts and outcome
\* follow from the responses to its own fetches: it fetches until one
\* succeeds or its own attempts are used up; a call none of whose fetches
\* succeeded rejects after exactly its own maximum, and a call whose fetch
\* succeeded has its fragment cached (and resolves with it) whatever became
\* of the other calls
C32_CallsAreIndependent ==
  \A c \in Calls :
    /\ calls[c].fetches <= MaxFetches
    /\ calls[c].pc \in {"fetchWait", "gotResponse"}
         => /\ calls[c].attempt = calls[c].fetches
            /\ Failed(calls[c]) = calls[c].fetches - 1
    /\ calls[c].pc = "backoff"
         => /\ calls[c].attempt = calls[c].fetches
            /\ Failed(calls[c]) = calls[c].fetches
            /\ calls[c].fetches < MaxFetches
    /\ (calls[c].pc = "done" /\ calls[c].dMisses = 1)
         => IF Failed(calls[c]) = calls[c].fetches
              THEN /\ calls[c].result = "rejected"
                   /\ calls[c].fetches = MaxFetches
                   /\ calls[c].stored = NoEntry
              ELSE /\ Failed(calls[c]) = calls[c].fetches - 1
                   /\ config.cacheHTML
                        => /\ calls[c].stored = Body(calls[c].name)
                           /\ htmlCache[calls[c].name] = Body(calls[c].name)
                   /\ poAvailable
                        => /\ calls[c].result = "resolved"
                           /\ calls[c].value = Body(calls[c].name)

\* two overlapping loads of different names: the first used up its attempts
\* and rejected, the second failed once, retried, resolved and is cached
C32_Witness ==
  /\ calls[1].pc = "done" /\ calls[1].result = "rejected" /\ calls[1].fetches = 2
  /\ calls[2].pc = "done" /\ calls[2].result = "resolved" /\ calls[2].fails = 1
  /\ calls[1].name # calls[2].name
  /\ htmlCache[calls[2].name] = Body(calls[2].name)
  /\ htmlCache[calls[1].name] = NoEntry

(***************************************************************************)
(* The container renderer in build mode                                    *)
(***************************************************************************)
\* C39: in build mode with the container renderer configured, no Vite server
\* is ever set, the container renderer never returns HTML (it returns null,
\* or throws on a source it cannot read), and every fragment written, or
\* about to be, comes from the parser renderer
C39_BuildModeFallsBack ==
  (options.command = "build" /\ options.renderer = "container") =>
    /\ ~viteServer
    /\ \A t \in Tasks : \A i \in DOMAIN task[t].log :
         task[t].log[i].by = "container" => task[t].log[i].kind \in {"null", "threw"}
    /\ \A t \in Tasks :
         task[t].pc \in {"write", "sethash"} => task[t].html.by = "parser"
    /\ \A n \in OutNames :
         fragments[n].kind = "fragment" => fragments[n].by = "parser"

\* a build pass with the container renderer configured wrote a fragment
\* after both renderers had been called
C39_Witness ==
  /\ options.command = "build"
  /\ options.renderer = "container"
  /\ fragments["Header"].kind = "fragment"
  /\ cur["Header.astro"].kind = "written"
  /\ cur["Header.astro"].renders = 2

(***************************************************************************)
(* The stylesheet and the fragments                                        *)
(***************************************************************************)
\* the stylesheet on disk has the rules for the classes of fragment f (where
\* utility CSS is generated) and holds its style blocks
Covers(f) ==
  /\ options.generateTailwindCSS
       => Range(ExtractClasses(f)) \subseteq cssOut.utilities
  /\ Range(ExtractStyles(f)) \subseteq Range(cssOut.styles)

\* C33: when a full pass has generated the stylesheet and goes on to save the
\* cache, the stylesheet covers every fragment on disk of a component the
\* pass discovered, the components skipped as cached included
C33_StylesheetCoversFragments ==
  pass.pc = "save" =>
    \A p \in pass.found :
      fragments[Basename(p)].kind = "fragment" => Covers(fragments[Basename(p)])

\* the dev server is watching and neither the pass nor a callback is at work
\* or waiting for an event
WatchQuiet ==
  /\ watcher.on /\ watcher.events = {}
  /\ pass.pc = "idle"
  /\ \A t \in Tasks : task[t].pc = "idle"

\* the components to which style block s belongs: those whose source, as last
\* rendered, or whose emitted fragment has it
ComponentsWith(s) ==
  {p \in Paths :
     \/ files[p] # Absent /\ s \in Range(ExtractStyles([src |-> files[p]]))
     \/ /\ fragments[Basename(p)].kind = "fragment"
        /\ s \in Range(ExtractStyles(fragments[Basename(p)]))}

\* the classes of the fragments on disk
EmittedClasses ==
  UNION {Range(ExtractClasses(fragments[n])) :
           n \in {m \in OutNames : fragments[m].kind = "fragment"}}

\* the component's style blocks are in componentStyles once at most
C34_StylesOncePerComponent ==
  \A s \in Range(componentStyles) :
    Occurrences(componentStyles, s) <= Cardinality(ComponentsWith(s))

\* the class set has only classes of fragments on disk
C34_ClassesAreEmitted == Range(classes) \subseteq EmittedClasses

\* C34: in watch mode, when the events so far have been handled,
\* componentStyles holds the style blocks of each component at most once and
\* the class set holds only classes that occur in an emitted fragment
C34_AccumulatorIsCurrent ==
  WatchQuiet => (C34_StylesOncePerComponent /\ C34_ClassesAreEmitted)

(***************************************************************************)
(* The names of the fragment files                                         *)
(***************************************************************************)
MaxDepth == 2           \* directories between the components directory and a file

Dirs == {"ui", "sub"}
Stems == {"Header", "Footer"}
Exts == {".astro", ".md"}

\* the directories leading to a file, from the components directory
DirSeqs == UNION {[1..k -> Dirs] : k \in 0..MaxDepth}

\* the files of the components directory's tree
TreeFiles == [dirs : DirSeqs, stem : Stems, ext : Exts]

\* fg('**/*.astro', {cwd: dir, absolute: true}): the listed files of any depth
\* that end in .astro, in the order of the listing
FindComponents(listing) == SelectSeq(listing, LAMBDA f : f.ext = ".astro")

\* basename(componentPath, '.astro'): the last segment of the path, without
\* the extension when it is .astro
BasenameOf(f) == IF f.ext = ".astro" THEN <<f.stem>> ELSE <<f.stem, f.ext>>

\* join(outputPath, `${componentName}.html`), relative to outputPath
HtmlOutputPath(f) == BasenameOf(f) \o <<".html">>

\* writeFileWithDir(path, content) on the set of fragment files, each with the
\* source it was rendered from: the file is created or replaced
WriteFileWithDir(dir, path, from) ==
  {r \in dir : r.path # path} \cup {[path |-> path, from |-> from]}

\* processAll lists the components of a tree that holds the files a and b
DiscoverComponents(a, b) ==
  /\ pure' = [fn |-> "names", in |-> FindComponents(<<a, b>>), first |-> {},
              out |-> {}, n |-> 0]
  /\ UNCHANGED stateVars

\* the loop of processAll reaches the next component and writes its fragment;
\* first is the output directory after the first write
WriteNextFragment ==
  /\ pure.fn = "names"
  /\ pure.n < Len(pure.in)
  /\ LET f == pure.in[pure.n + 1]
         dir == WriteFileWithDir(pure.out, HtmlOutputPath(f), f)
     IN pure' = [pure EXCEPT !.out = dir,
                             !.first = IF pure.n = 0 THEN dir ELSE @,
                             !.n = @ + 1]
  /\ UNCHANGED stateVars

\* a pass begins on a tree of two files
DiscoverTree ==
  /\ pure.fn = "none"
  /\ \E a, b \in TreeFiles : a # b /\ DiscoverComponents(a, b)

NamesNext == DiscoverTree \/ WriteNextFragment

\* one pass over every tree of two files, up to the writing of the fragments
SpecNames == InitCache /\ [][NamesNext]_vars

\* C35: the fragment written for a component in a pass is on disk, as that
\* component's, for the rest of the pass: the fragments of distinct source
\* paths are distinct files, also when the sources have the same file name in
\* different subdirectories
C35_DistinctFragmentFiles ==
  pure.fn = "names" =>
    \A i \in 1..pure.n : \E r \in pure.out : r.from = pure.in[i]

====
